---- MODULE Spec2Model ----
(***************************************************************************)
(* A model of nf_core/launch.py: the Launch class that collects pipeline   *)
(* parameters (schema defaults, a parameter file, the command-line wizard  *)
(* or the web form), reconciles them and builds the `nextflow run`         *)
(* command.                                                                *)
(*                                                                         *)
(* Python strings are sequences of one-character strings, so that strip(), *)
(* lower(), int(), float(), str() and quoting are computed, not assumed.   *)
(* Python values are records [t, s, n]: t is the Python type, s the text   *)
(* of a str, n the number of a bool (0/1), an int, or a float in tenths.   *)
(* Python dicts are sequences of [k, v] entries in insertion order.        *)
(***************************************************************************)
EXTENDS Integers, Sequences, FiniteSets, TLC

(***************************************************************************)
(* Bounds of the model.                                                    *)
(***************************************************************************)
\* how many polls the form may answer with waiting_for_user
MaxPolls == 2
\* how many questions of a session the user answers with something other
\* than what the prompt offers (the default text, the first choice)
MaxEdits == 1

(***************************************************************************)
(* Python strings.                                                         *)
(***************************************************************************)
Digits == <<"0", "1", "2", "3", "4", "5", "6", "7", "8", "9">>

IsSpace(c) == c \in {" ", "\t", "\n"}

IsDigit(c) == \E i \in 1..10 : Digits[i] = c

DigitVal(c) == (CHOOSE i \in 1..10 : Digits[i] = c) - 1

RECURSIVE LStrip(_)
LStrip(s) == IF s # <<>> /\ IsSpace(Head(s)) THEN LStrip(Tail(s)) ELSE s

RECURSIVE RStrip(_)
RStrip(s) ==
    IF s # <<>> /\ IsSpace(s[Len(s)]) THEN RStrip(SubSeq(s, 1, Len(s) - 1)) ELSE s

\* str.strip()
Strip(s) == RStrip(LStrip(s))

LowerChar(c) ==
    CASE c = "T" -> "t" [] c = "R" -> "r" [] c = "U" -> "u" [] c = "E" -> "e"
      [] c = "F" -> "f" [] c = "A" -> "a" [] c = "L" -> "l" [] c = "S" -> "s"
      [] OTHER -> c

\* str.lower()
Lower(s) == [i \in 1..Len(s) |-> LowerChar(s[i])]

RECURSIVE NatToStr(_)
NatToStr(n) ==
    IF n < 10 THEN <<Digits[n + 1]>> ELSE NatToStr(n \div 10) \o <<Digits[(n % 10) + 1]>>

IntToStr(n) == IF n < 0 THEN <<"-">> \o NatToStr(0 - n) ELSE NatToStr(n)

AllDigits(s) == s # <<>> /\ \A i \in 1..Len(s) : IsDigit(s[i])

RECURSIVE DigitsVal(_)
DigitsVal(s) ==
    IF s = <<>> THEN 0 ELSE DigitsVal(SubSeq(s, 1, Len(s) - 1)) * 10 + DigitVal(s[Len(s)])

Unsigned(s) == IF s # <<>> /\ Head(s) \in {"-", "+"} THEN Tail(s) ELSE s

Sign(s) == IF s # <<>> /\ Head(s) = "-" THEN 0 - 1 ELSE 1

\* the text int() accepts: optional blanks, optional sign, digits
IsIntText(s) == AllDigits(Unsigned(Strip(s)))

IntOfText(s) == Sign(Strip(s)) * DigitsVal(Unsigned(Strip(s)))

DotAt(s) == IF \E i \in 1..Len(s) : s[i] = "." THEN CHOOSE i \in 1..Len(s) : s[i] = "." ELSE 0

\* the text float() accepts, to one decimal: digits, or digits "." digit
IsFloatText(s) ==
    LET u == Unsigned(Strip(s))
        d == DotAt(u)
    IN  IF d = 0 THEN AllDigits(u)
        ELSE /\ AllDigits(SubSeq(u, 1, d - 1))
             /\ Len(u) = d + 1
             /\ IsDigit(u[d + 1])

\* float() of such a text, in tenths
TenthsOfText(s) ==
    LET u == Unsigned(Strip(s))
        d == DotAt(u)
    IN  Sign(Strip(s)) *
        (IF d = 0 THEN DigitsVal(u) * 10
         ELSE DigitsVal(SubSeq(u, 1, d - 1)) * 10 + DigitVal(u[d + 1]))

(***************************************************************************)
(* Python values.                                                          *)
(***************************************************************************)
PyStr(s) == [t |-> "str", s |-> s, n |-> 0]

PyBool(b) == [t |-> "bool", s |-> <<>>, n |-> IF b THEN 1 ELSE 0]

PyInt(n) == [t |-> "int", s |-> <<>>, n |-> n]

\* a float, held in tenths
PyFloat(tenths) == [t |-> "float", s |-> <<>>, n |-> tenths]

PyNone == [t |-> "none", s |-> <<>>, n |-> 0]

\* the outcome of a call that raised instead of returning
Raised == [t |-> "raised", s |-> <<>>, n |-> 0]

IsNumeric(v) == v.t \in {"bool", "int", "float"}

Tenths(v) == IF v.t = "float" THEN v.n ELSE v.n * 10

\* Python's ==: numbers compare by value across bool, int and float
PyEq(a, b) ==
    IF IsNumeric(a) /\ IsNumeric(b) THEN Tenths(a) = Tenths(b)
    ELSE a.t = b.t /\ a.s = b.s

\* str(v)
PyToStr(v) ==
    CASE v.t = "str" -> v.s
      [] v.t = "bool" -> IF v.n = 1 THEN <<"T", "r", "u", "e">> ELSE <<"F", "a", "l", "s", "e">>
      [] v.t = "int" -> IntToStr(v.n)
      [] v.t = "float" ->
            (IF v.n < 0 THEN <<"-">> ELSE <<>>)
            \o NatToStr((IF v.n < 0 THEN 0 - v.n ELSE v.n) \div 10)
            \o <<".">>
            \o NatToStr((IF v.n < 0 THEN 0 - v.n ELSE v.n) % 10)
      [] OTHER -> <<"N", "o", "n", "e">>

(***************************************************************************)
(* Python dicts, in insertion order.                                       *)
(***************************************************************************)
DictKeys(d) == [i \in 1..Len(d) |-> d[i].k]

DictHas(d, k) == \E i \in 1..Len(d) : d[i].k = k

DictIdx(d, k) == CHOOSE i \in 1..Len(d) : d[i].k = k

\* d[k]
DictGet(d, k) == d[DictIdx(d, k)].v

\* d[k] = v: an existing key keeps its place, a new key goes last
DictSet(d, k, v) ==
    IF DictHas(d, k) THEN [d EXCEPT ![DictIdx(d, k)].v = v]
    ELSE Append(d, [k |-> k, v |-> v])

\* del d[k]
DictDel(d, k) ==
    LET i == DictIdx(d, k) IN SubSeq(d, 1, i - 1) \o SubSeq(d, i + 1, Len(d))

\* d.update(e)
RECURSIVE DictUpdate(_, _)
DictUpdate(d, e) ==
    IF e = <<>> THEN d ELSE DictUpdate(DictSet(d, Head(e).k, Head(e).v), Tail(e))

(***************************************************************************)
(* The parameter schema.  A property is a record; a group is a property of *)
(* type "object" whose `properties` are its children, in order.            *)
(***************************************************************************)
S_True == <<"T", "r", "u", "e">>

S_False == <<"F", "a", "l", "s", "e">>

S_true == <<"t", "r", "u", "e">>

\* a property with only an id and a type
Prop(id, type) ==
    [id |-> id, type |-> type,
     hasDefault |-> FALSE, default |-> PyNone,
     hasEnum |-> FALSE, enum |-> <<>>,
     hasPattern |-> FALSE, pattern |-> "",
     hasMin |-> FALSE, minimum |-> 0,
     hasMax |-> FALSE, maximum |-> 0,
     hidden |-> FALSE,
     required |-> <<>>,
     properties |-> <<>>]

WithDefault(p, v) == [p EXCEPT !.hasDefault = TRUE, !.default = v]

WithEnum(p, e) == [p EXCEPT !.hasEnum = TRUE, !.enum = e]

WithPattern(p, r) == [p EXCEPT !.hasPattern = TRUE, !.pattern = r]

Group(id, children, required) ==
    [Prop(id, "object") EXCEPT !.properties = children, !.required = required]

NxfGroupId == "Nextflow command-line flags"

\* self.nxf_flag_schema
nxf_flag_schema ==
    Group(NxfGroupId,
          <<WithPattern(Prop("-name", "string"), "^[a-zA-Z0-9-_]+$"),
            Prop("-profile", "string"),
            WithDefault(Prop("-work-dir", "string"), PyStr(<<".", "/", "w", "o", "r", "k">>)),
            WithDefault(Prop("-resume", "boolean"), PyBool(FALSE))>>,
          <<>>)

NxfFlagIds == {nxf_flag_schema.properties[i].id : i \in 1..Len(nxf_flag_schema.properties)}

\* the leaf properties of a schema with their ids: top-level leaves, and
\* the children of groups
RECURSIVE Leaves(_)
Leaves(props) ==
    IF props = <<>> THEN <<>>
    ELSE IF Head(props).type = "object"
         THEN Head(props).properties \o Leaves(Tail(props))
         ELSE <<Head(props)>> \o Leaves(Tail(props))

(***************************************************************************)
(* The question compiler: single_param_to_pyinquirer.                      *)
(***************************************************************************)
\* a resolution that lets the input value outrank the answer of the session
RawDefaultInputOverAnswer(param_obj, input_params, answers) ==
    IF DictHas(input_params, param_obj.id)
    THEN IF param_obj.type = "boolean" /\ DictGet(input_params, param_obj.id).t = "str"
         THEN [has |-> TRUE,
               v |-> PyBool(S_true = Lower(DictGet(input_params, param_obj.id).s))]
         ELSE [has |-> TRUE, v |-> DictGet(input_params, param_obj.id)]
    ELSE IF DictHas(answers, param_obj.id)
    THEN [has |-> TRUE, v |-> DictGet(answers, param_obj.id)]
    ELSE IF param_obj.hasDefault
    THEN IF param_obj.type = "boolean" /\ param_obj.default.t = "str"
         THEN [has |-> TRUE, v |-> PyBool(Lower(param_obj.default.s) = S_true)]
         ELSE [has |-> TRUE, v |-> param_obj.default]
    ELSE IF param_obj.type = "boolean"
    THEN [has |-> TRUE, v |-> PyStr(S_False)]
    ELSE [has |-> FALSE, v |-> PyNone]

\* question["default"] before it is coerced to a string
RawDefault(param_obj, input_params, answers) ==
    LET d0 == IF param_obj.type = "boolean"
              THEN [has |-> TRUE, v |-> PyStr(S_False)]
              ELSE [has |-> FALSE, v |-> PyNone]
        d1 == IF param_obj.hasDefault
              THEN IF param_obj.type = "boolean" /\ param_obj.default.t = "str"
                   THEN [has |-> TRUE, v |-> PyBool(Lower(param_obj.default.s) = S_true)]
                   ELSE [has |-> TRUE, v |-> param_obj.default]
              ELSE d0
        d2 == IF DictHas(input_params, param_obj.id)
              THEN LET iv == DictGet(input_params, param_obj.id)
                   IN  IF param_obj.type = "boolean" /\ iv.t = "str"
                       THEN [has |-> TRUE, v |-> PyBool(S_true = Lower(iv.s))]
                       ELSE [has |-> TRUE, v |-> iv]
              ELSE d1
    IN  IF DictHas(answers, param_obj.id)
        THEN [has |-> TRUE, v |-> DictGet(answers, param_obj.id)]
        ELSE d2

\* question["type"]
QuestionType(param_obj) ==
    IF param_obj.type = "boolean" \/ param_obj.hasEnum THEN "list" ELSE "input"

\* question["choices"] before the default is moved
DeclaredChoices(param_obj) ==
    IF param_obj.hasEnum THEN param_obj.enum
    ELSE IF param_obj.type = "boolean" THEN <<S_True, S_False>>
    ELSE <<>>

InSeq(x, s) == \E i \in 1..Len(s) : s[i] = x

\* a move that lets the default change places with the first choice
MoveToFrontSwap(choices, d) ==
    LET i == CHOOSE j \in 1..Len(choices) :
                 choices[j] = d /\ \A h \in 1..(j - 1) : choices[h] # d
    IN  [choices EXCEPT ![1] = d, ![i] = choices[1]]

\* choices.remove(d); choices.insert(0, d)
MoveToFront(choices, d) ==
    LET i == CHOOSE j \in 1..Len(choices) :
                 choices[j] = d /\ \A h \in 1..(j - 1) : choices[h] # d
    IN  <<d>> \o SubSeq(choices, 1, i - 1) \o SubSeq(choices, i + 1, Len(choices))

\* the choice list once the default has been moved to the top
MovedChoices(param_obj, input_params, answers) ==
    LET d == RawDefault(param_obj, input_params, answers)
        c == DeclaredChoices(param_obj)
    IN  IF QuestionType(param_obj) = "list" /\ d.has /\ InSeq(PyToStr(d.v), c)
        THEN MoveToFront(c, PyToStr(d.v))
        ELSE c

\* question["filter"]
QuestionFilter(param_obj) ==
    IF param_obj.type \in {"boolean", "number", "integer", "range"}
    THEN param_obj.type ELSE "none"

\* question["validate"]: each assignment overwrites the one before
QuestionValidate(param_obj) ==
    IF param_obj.hasPattern THEN "pattern"
    ELSE IF param_obj.hasEnum THEN "enum"
    ELSE IF param_obj.type \in {"number", "integer", "range"} THEN param_obj.type
    ELSE "none"

single_param_to_pyinquirer(param_obj, input_params, answers) ==
    LET d == RawDefault(param_obj, input_params, answers)
    IN  [type |-> QuestionType(param_obj),
         name |-> param_obj.id,
         hasDefault |-> d.has,
         default |-> IF d.has THEN PyToStr(d.v) ELSE <<>>,
         choices |-> MovedChoices(param_obj, input_params, answers),
         filter |-> QuestionFilter(param_obj),
         validate |-> QuestionValidate(param_obj),
         warned |-> /\ QuestionType(param_obj) = "list"
                    /\ d.has
                    /\ ~InSeq(PyToStr(d.v), DeclaredChoices(param_obj))]

\* param_obj after the call: question["choices"] is param_obj["enum"] itself,
\* so moving the default reorders the schema's enum
ParamObjAfterCompile(param_obj, input_params, answers) ==
    IF param_obj.hasEnum
    THEN [param_obj EXCEPT !.enum = MovedChoices(param_obj, input_params, answers)]
    ELSE param_obj

\* the filter functions; a value they cannot handle raises
filter_boolean(val) ==
    IF val.t = "bool" THEN val
    ELSE IF val.t = "str" THEN PyBool(Lower(val.s) = S_true)
    ELSE Raised

filter_number(val) ==
    IF val.t # "str" THEN Raised
    ELSE IF Strip(val.s) = <<>> THEN PyStr(<<>>)
    ELSE IF IsFloatText(val.s) THEN PyFloat(TenthsOfText(val.s))
    ELSE Raised

\* a filter that reads a blank text as zero
filter_integer_zero(val) ==
    IF val.t # "str" THEN Raised
    ELSE IF Strip(val.s) = <<>> THEN PyInt(0)
    ELSE IF IsIntText(val.s) THEN PyInt(IntOfText(val.s))
    ELSE Raised

filter_integer(val) ==
    IF val.t # "str" THEN Raised
    ELSE IF Strip(val.s) = <<>> THEN PyStr(<<>>)
    ELSE IF IsIntText(val.s) THEN PyInt(IntOfText(val.s))
    ELSE Raised

filter_range(val) ==
    IF val.t # "str" THEN Raised
    ELSE IF Strip(val.s) = <<>> THEN PyStr(<<>>)
    ELSE IF IsFloatText(val.s) THEN PyFloat(TenthsOfText(val.s))
    ELSE Raised

ApplyFilter(filter, val) ==
    CASE filter = "boolean" -> filter_boolean(val)
      [] filter = "number" -> filter_number(val)
      [] filter = "integer" -> filter_integer(val)
      [] filter = "range" -> filter_range(val)
      [] OTHER -> val

(***************************************************************************)
(* Sanitising what the web form returned: sanitise_web_response.           *)
(***************************************************************************)
\* pyinquirer_objects.get(param_id, {}).get("filter"): the question compiled
\* last for that id decides
RECURSIVE FilterFor(_, _)
FilterFor(leaves, param_id) ==
    IF leaves = <<>> THEN "none"
    ELSE IF leaves[Len(leaves)].id = param_id THEN QuestionFilter(leaves[Len(leaves)])
    ELSE FilterFor(SubSeq(leaves, 1, Len(leaves) - 1), param_id)

\* the schema's properties once every leaf has been compiled
CompileAll(props, input_params) ==
    [i \in 1..Len(props) |->
        IF props[i].type = "object"
        THEN [props[i] EXCEPT !.properties =
                 [j \in 1..Len(props[i].properties) |->
                     ParamObjAfterCompile(props[i].properties[j], input_params, <<>>)]]
        ELSE ParamObjAfterCompile(props[i], input_params, <<>>)]

\* a sanitisation that keeps the blank entries and filters them
RECURSIVE SanitiseKeepingBlanks(_, _, _, _)
SanitiseKeepingBlanks(params, i, acc, leaves) ==
    IF i > Len(params) THEN [ok |-> TRUE, d |-> acc]
    ELSE LET e == params[i]
             f == FilterFor(leaves, e.k)
         IN  IF ApplyFilter(f, e.v) = Raised
             THEN [ok |-> FALSE, d |-> acc \o SubSeq(params, i, Len(params))]
             ELSE SanitiseKeepingBlanks(params, i + 1,
                                        Append(acc, [k |-> e.k, v |-> ApplyFilter(f, e.v)]),
                                        leaves)

\* a sanitisation that filters every entry first and drops the blank outputs
RECURSIVE SanitiseFilterFirst(_, _, _, _)
SanitiseFilterFirst(params, i, acc, leaves) ==
    IF i > Len(params) THEN [ok |-> TRUE, d |-> acc]
    ELSE LET e == params[i]
             f == FilterFor(leaves, e.k)
         IN  IF ApplyFilter(f, e.v) = Raised
             THEN [ok |-> FALSE, d |-> acc \o SubSeq(params, i, Len(params))]
             ELSE IF Strip(PyToStr(ApplyFilter(f, e.v))) = <<>>
             THEN SanitiseFilterFirst(params, i + 1, acc, leaves)
             ELSE SanitiseFilterFirst(params, i + 1,
                                      Append(acc, [k |-> e.k, v |-> ApplyFilter(f, e.v)]),
                                      leaves)

\* the second loop over one of the two maps, from entry i on; `acc` holds the
\* entries already handled.  A filter that raises leaves the entry it was
\* called for, and those after it, as they were.
RECURSIVE SanitiseFrom(_, _, _, _)
SanitiseFrom(params, i, acc, leaves) ==
    IF i > Len(params) THEN [ok |-> TRUE, d |-> acc]
    ELSE LET e == params[i]
             f == FilterFor(leaves, e.k)
         IN  IF Strip(PyToStr(e.v)) = <<>>
             THEN SanitiseFrom(params, i + 1, acc, leaves)
             ELSE IF ApplyFilter(f, e.v) = Raised
             THEN [ok |-> FALSE, d |-> acc \o SubSeq(params, i, Len(params))]
             ELSE SanitiseFrom(params, i + 1,
                               Append(acc, [k |-> e.k, v |-> ApplyFilter(f, e.v)]),
                               leaves)

SanitiseMap(params, leaves) == SanitiseFrom(params, 1, <<>>, leaves)

\* the outcome of the two loops: f for the flags, p for the input params
SanitiseOutcome(props, params, f, p) ==
    [ok |-> f.ok /\ p.ok,
     properties |-> CompileAll(props, params),
     nxf_flags |-> f.d,
     input_params |-> IF f.ok THEN p.d ELSE params]

\* sanitise_web_response on (schema properties, nxf_flags, input_params)
sanitise_web_response(props, flags, params) ==
    SanitiseOutcome(props, params,
                    SanitiseMap(flags, Leaves(props)),
                    SanitiseMap(params, Leaves(props)))

(***************************************************************************)
(* Messages: a format string and the values put into it.                   *)
(***************************************************************************)
Msg(template, args) == [template |-> template, args |-> args]

NoMsg == Msg("", <<>>)

(***************************************************************************)
(* One poll of the web form: get_web_launch_response.                      *)
(***************************************************************************)
\* the keys a completed response is read for, in the order they are read
ResponseKeys ==
    <<"nxf_flags", "input_params", "schema", "cli_launch", "nextflow_cmd",
      "pipeline", "revision">>

\* how many keys are read before the first missing one
KeysRead(r) ==
    IF \E i \in 1..Len(ResponseKeys) : ResponseKeys[i] \in r.missing
    THEN (CHOOSE i \in 1..Len(ResponseKeys) :
             /\ ResponseKeys[i] \in r.missing
             /\ \A j \in 1..(i - 1) : ResponseKeys[j] \notin r.missing) - 1
    ELSE Len(ResponseKeys)

\* lines 314-322: the fields of a completed response are taken over one
\* by one, up to the first key that is missing
Adopted(st, r, n) ==
    [nxf_flags |-> IF n >= 1 /\ Len(r.nxf_flags) > 0 THEN r.nxf_flags ELSE st.nxf_flags,
     input_params |-> IF n >= 2 /\ Len(r.input_params) > 0
                      THEN r.input_params ELSE st.input_params,
     schema |-> IF n >= 3 THEN r.schema ELSE st.schema,
     cli_launch |-> IF n >= 4 THEN r.cli_launch ELSE st.cli_launch,
     nextflow_cmd |-> IF n >= 5 THEN r.nextflow_cmd ELSE st.nextflow_cmd,
     pipeline |-> IF n >= 6 THEN r.pipeline ELSE st.pipeline,
     pipeline_revision |-> IF n >= 7 THEN r.revision ELSE st.pipeline_revision]

\* line 324: the fields once sanitise_web_response has run (s is its outcome)
Sanitised(a, s) ==
    [a EXCEPT !.schema.properties = s.properties,
              !.nxf_flags = s.nxf_flags,
              !.input_params = s.input_params]

\* lines 309-332 once the fields are taken over (a) and sanitised (s)
Completed(a, s) ==
    IF s.ok
    THEN [returns |-> "True", error |-> NoMsg, st |-> Sanitised(a, s)]
    ELSE [returns |-> "raise",
          error |-> Msg("Unknown exception ({}) - see verbose log for details. {}",
                        <<"Exception">>),
          st |-> Sanitised(a, s)]

\* lines 309-332
LaunchParamsComplete(a, n) ==
    IF n < Len(ResponseKeys)
    THEN [returns |-> "raise",
          error |-> Msg("Missing return key from web API: {}", <<ResponseKeys[n + 1]>>),
          st |-> a]
    ELSE Completed(a, sanitise_web_response(a.schema.properties, a.nxf_flags,
                                            a.input_params))

\* a poll that takes waiting_for_user for the end of the wait
PollWaitingEndsWait(st, r, api_url) ==
    IF r.status = "error"
    THEN [returns |-> "raise",
          error |-> Msg("Got error from launch API ({})",
                        <<IF r.hasMessage THEN r.message ELSE "None">>),
          st |-> st]
    ELSE IF r.status = "waiting_for_user"
    THEN [returns |-> "True", error |-> NoMsg, st |-> st]
    ELSE IF r.status = "launch_params_complete"
    THEN LaunchParamsComplete(Adopted(st, r, KeysRead(r)), KeysRead(r))
    ELSE [returns |-> "raise",
          error |-> Msg("Web launch GUI returned unexpected status ({}): {}",
                        <<r.status, api_url>>),
          st |-> st]

\* a poll that keeps waiting on the status error
PollErrorKeepsWaiting(st, r, api_url) ==
    IF r.status = "error" \/ r.status = "waiting_for_user"
    THEN [returns |-> "False", error |-> NoMsg, st |-> st]
    ELSE IF r.status = "launch_params_complete"
    THEN LaunchParamsComplete(Adopted(st, r, KeysRead(r)), KeysRead(r))
    ELSE [returns |-> "raise",
          error |-> Msg("Web launch GUI returned unexpected status ({}): {}",
                        <<r.status, api_url>>),
          st |-> st]

\* a poll that keeps waiting on a status it does not know
PollUnknownKeepsWaiting(st, r, api_url) ==
    IF r.status = "error"
    THEN [returns |-> "raise",
          error |-> Msg("Got error from launch API ({})",
                        <<IF r.hasMessage THEN r.message ELSE "None">>),
          st |-> st]
    ELSE IF r.status = "launch_params_complete"
    THEN LaunchParamsComplete(Adopted(st, r, KeysRead(r)), KeysRead(r))
    ELSE [returns |-> "False", error |-> NoMsg, st |-> st]

\* The launcher fields a poll may change, before (st) and after.  returns is
\* "False", "True" or "raise"; error is the AssertionError's message.
get_web_launch_response(st, r, api_url) ==
    IF r.status = "error"
    THEN [returns |-> "raise",
          error |-> Msg("Got error from launch API ({})",
                        <<IF r.hasMessage THEN r.message ELSE "None">>),
          st |-> st]
    ELSE IF r.status = "waiting_for_user"
    THEN [returns |-> "False", error |-> NoMsg, st |-> st]
    ELSE IF r.status = "launch_params_complete"
    THEN LaunchParamsComplete(Adopted(st, r, KeysRead(r)), KeysRead(r))
    ELSE [returns |-> "raise",
          error |-> Msg("Web launch GUI returned unexpected status ({}): {}",
                        <<r.status, api_url>>),
          st |-> st]

(***************************************************************************)
(* The Schema Service (nf_core.schema.PipelineSchema), as launch.py uses   *)
(* it.                                                                     *)
(***************************************************************************)
\* flatten_schema: top-level leaves keep their place, the children of each
\* group follow them
RECURSIVE TopLeaves(_)
TopLeaves(props) ==
    IF props = <<>> THEN <<>>
    ELSE IF Head(props).type = "object" THEN TopLeaves(Tail(props))
    ELSE <<Head(props)>> \o TopLeaves(Tail(props))

RECURSIVE GroupLeaves(_)
GroupLeaves(props) ==
    IF props = <<>> THEN <<>>
    ELSE IF Head(props).type = "object"
         THEN Head(props).properties \o GroupLeaves(Tail(props))
         ELSE GroupLeaves(Tail(props))

FlatLeaves(props) == TopLeaves(props) \o GroupLeaves(props)

\* get_schema_defaults: the declared default of every flattened property
RECURSIVE DefaultsOf(_)
DefaultsOf(leaves) ==
    IF leaves = <<>> THEN <<>>
    ELSE IF Head(leaves).hasDefault
         THEN DictUpdate(<<[k |-> Head(leaves).id, v |-> Head(leaves).default]>>,
                         DefaultsOf(Tail(leaves)))
         ELSE DefaultsOf(Tail(leaves))

get_schema_defaults(props) == DefaultsOf(FlatLeaves(props))

\* load_input_params: the file's entries are applied over the top
load_input_params(input_params, file) == DictUpdate(input_params, file)

(***************************************************************************)
(* set_schema_inputs and merge_nxf_flag_schema.                            *)
(***************************************************************************)
NoFile == <<[k |-> "(no --params-in)", v |-> PyNone]>>

set_schema_inputs(input_params, defaults, file) ==
    LET start == IF Len(input_params) = 0 THEN defaults ELSE input_params
    IN  IF file # NoFile THEN load_input_params(start, file) ELSE start

\* dict.update on the properties of a schema: a key already there keeps its
\* place and takes the new property, a new key goes last
RECURSIVE PropsUpdate(_, _)
PropsUpdate(props, more) ==
    IF more = <<>> THEN props
    ELSE LET m == Head(more)
         IN  IF \E i \in 1..Len(props) : props[i].id = m.id
             THEN PropsUpdate([props EXCEPT ![CHOOSE i \in 1..Len(props) : props[i].id = m.id] = m],
                              Tail(more))
             ELSE PropsUpdate(Append(props, m), Tail(more))

\* the Nextflow flags come first
merge_nxf_flag_schema(props) == PropsUpdate(<<nxf_flag_schema>>, props)

\* a strip that removes every entry the schema has a default for
RECURSIVE StripAllDefaulted(_, _)
StripAllDefaulted(input_params, defaults) ==
    IF defaults = <<>> THEN input_params
    ELSE IF DictHas(input_params, Head(defaults).k)
    THEN StripAllDefaulted(DictDel(input_params, Head(defaults).k), Tail(defaults))
    ELSE StripAllDefaulted(input_params, Tail(defaults))

(***************************************************************************)
(* strip_default_params.                                                   *)
(***************************************************************************)
\* the first loop: entries equal to their schema default are deleted
RECURSIVE StripSchemaDefaults(_, _)
StripSchemaDefaults(input_params, defaults) ==
    IF defaults = <<>> THEN input_params
    ELSE LET d == Head(defaults)
         IN  IF DictHas(input_params, d.k) /\ PyEq(DictGet(input_params, d.k), d.v)
             THEN StripSchemaDefaults(DictDel(input_params, d.k), Tail(defaults))
             ELSE StripSchemaDefaults(input_params, Tail(defaults))

\* the second loop: val.get("default") is None for a flag without default
RECURSIVE StripFlagDefaults(_, _)
StripFlagDefaults(flags, flagProps) ==
    IF flagProps = <<>> THEN flags
    ELSE LET q == Head(flagProps)
             dflt == IF q.hasDefault THEN q.default ELSE PyNone
         IN  IF DictHas(flags, q.id) /\ PyEq(DictGet(flags, q.id), dflt)
             THEN StripFlagDefaults(DictDel(flags, q.id), Tail(flagProps))
             ELSE StripFlagDefaults(flags, Tail(flagProps))

(***************************************************************************)
(* build_command.                                                          *)
(***************************************************************************)
\* val.replace('"', '\\"')
RECURSIVE EscapeQuotes(_)
EscapeQuotes(s) ==
    IF s = <<>> THEN <<>>
    ELSE IF Head(s) = "\"" THEN <<"\\", "\"">> \o EscapeQuotes(Tail(s))
    ELSE <<Head(s)>> \o EscapeQuotes(Tail(s))

\* ' {} "{}"'.format(name, text)
Quoted(name, text) == <<" ", name, " ", "\"">> \o EscapeQuotes(text) \o <<"\"">>

\* flags written like the params: a false flag with its value
RECURSIVE FlagsTextLikeParams(_)
FlagsTextLikeParams(flags) ==
    IF flags = <<>> THEN <<>>
    ELSE (IF Head(flags).v.t = "bool" /\ Head(flags).v.n = 1 THEN <<" ", Head(flags).k>>
          ELSE Quoted(Head(flags).k, PyToStr(Head(flags).v)))
         \o FlagsTextLikeParams(Tail(flags))

\* the text appended for the flags, or "raise" when a value that is neither a
\* bool nor a str meets val.replace
RECURSIVE FlagsText(_)
FlagsText(flags) ==
    IF flags = <<>> THEN <<>>
    ELSE LET e == Head(flags)
         IN  (IF e.v.t = "bool" THEN (IF e.v.n = 1 THEN <<" ", e.k>> ELSE <<>>)
              ELSE Quoted(e.k, e.v.s))
             \o FlagsText(Tail(flags))

FlagsRaise(flags) == \E i \in 1..Len(flags) : flags[i].v.t \notin {"bool", "str"}

\* the flags handled before the first one that raises
FlagsBeforeRaise(flags) ==
    IF FlagsRaise(flags)
    THEN SubSeq(flags, 1, (CHOOSE i \in 1..Len(flags) :
                              /\ flags[i].v.t \notin {"bool", "str"}
                              /\ \A j \in 1..(i - 1) : flags[j].v.t \in {"bool", "str"}) - 1)
    ELSE flags

RECURSIVE ParamsText(_)
ParamsText(params) ==
    IF params = <<>> THEN <<>>
    ELSE LET e == Head(params)
         IN  (IF e.v.t = "bool" /\ e.v.n = 1 THEN <<" --", e.k>>
              ELSE <<" --", e.k, " ", "\"">> \o EscapeQuotes(PyToStr(e.v)) \o <<"\"">>)
             \o ParamsText(Tail(params))

(***************************************************************************)
(* The inputs the model draws from.                                        *)
(***************************************************************************)
Entry(k, v) == [k |-> k, v |-> v]

\* pipeline schemas: a required integer with a default and a group with a
\* required string and a boolean; an enum, a hidden number and a boolean
\* whose default is written as text; an integer and an enum that also
\* declare a pattern, a group that holds a group, a group whose children are
\* all hidden and a group with a hidden and a visible child
PipelineSchemas ==
    { [properties |->
          <<WithDefault(Prop("a", "integer"), PyInt(1)),
            Group("G",
                  <<Prop("b", "string"),
                    WithDefault(Prop("flag", "boolean"), PyBool(TRUE))>>,
                  <<"b">>)>>,
       required |-> <<"a">>],
      [properties |->
          <<WithEnum(WithDefault(Prop("e", "string"), PyStr(<<"y">>)), <<<<"x">>, <<"y">>>>),
            [Prop("h", "number") EXCEPT !.hidden = TRUE],
            WithDefault(Prop("flag", "boolean"), PyStr(S_true))>>,
       required |-> <<>>],
      [properties |->
          <<WithPattern(Prop("n", "integer"), "^[a-zA-Z0-9-_]+$"),
            WithPattern(WithEnum(WithDefault(Prop("m", "string"), PyStr(<<"y">>)),
                                 <<<<"x">>, <<"3">>, <<"y">>>>),
                        "^\\d+$"),
            Group("N", <<Prop("c", "string"), Group("NN", <<>>, <<>>)>>, <<>>),
            Group("H", <<[Prop("k", "string") EXCEPT !.hidden = TRUE]>>, <<>>),
            Group("V", <<[Prop("h2", "string") EXCEPT !.hidden = TRUE],
                         Prop("v", "string")>>, <<>>)>>,
       required |-> <<>>] }

\* the contents of the --params-in file
ParamsFiles ==
    { NoFile,
      <<Entry("a", PyInt(2))>>,
      <<Entry("b", PyStr(<<"f">>)), Entry("a", PyInt(2)),
        Entry("-resume", PyBool(TRUE))>> }

\* nxf_flags as the web form may return them
RemoteFlagMaps ==
    { <<>>,
      <<Entry("-resume", PyStr(S_true)), Entry("-profile", PyStr(<<"t">>))>>,
      <<Entry("-name", PyStr(<<>>)), Entry("-resume", PyBool(FALSE))>> }

\* input_params as the web form may return them: text, blank text, and
\* values that are already typed
RemoteParamMaps ==
    { <<>>,
      <<Entry("a", PyStr(<<"4">>))>>,
      <<Entry("a", PyStr(<<"4">>)), Entry("b", PyStr(<<>>))>>,
      <<Entry("b", PyStr(<<"w">>)), Entry("a", PyStr(<<" ">>))>>,
      <<Entry("flag", PyStr(<<>>)), Entry("e", PyStr(<<"x">>))>>,
      <<Entry("flag", PyBool(TRUE)), Entry("a", PyInt(1))>>,
      <<Entry("b", PyStr(<<"w">>)), Entry("a", PyStr(<<"x">>))>>,
      <<Entry("-resume", PyStr(S_true)), Entry("a", PyStr(<<"4">>))>> }

NoneStr == "None"

BaseUrl == "https://nf-co.re/launch"

WebIds == {NoneStr, "id1"}

\* what was sent to the form by the launch that created a web id
RemoteOrigin ==
    [pipeline |-> "rnaseq", revision |-> "dev",
     nextflow_cmd |-> <<"nextflow run ", "nf-core/", "rnaseq", " -r ", "dev">>]

EmptySchema == [properties |-> <<>>, required |-> <<>>]

(***************************************************************************)
(* The state of one launch.                                                *)
(***************************************************************************)
VARIABLES
    pc,                         \* where launch_pipeline is
    result,                     \* what launch_pipeline returned
    pipeline, pipeline_revision, web_id, params_in, save_all,
    use_params_file, show_hidden,
    schema,                     \* schema_obj.schema
    schema_defaults,            \* schema_obj.schema_defaults
    input_params,               \* schema_obj.input_params
    nxf_flags, params_user, cli_launch, nextflow_cmd,
    web_schema_launch_web_url, web_schema_launch_api_url,
    web_response,               \* the last response of the web API
    polls,                      \* calls of get_web_launch_response so far
    browser_opened,
    log_errors, log_warnings,
    params_out,                 \* the parameter output file
    process_started,
    p_idx,                      \* prompt_schema: the top-level property reached
    answers,                    \* prompt_schema: the answers so far
    g_answers,                  \* prompt_group: the answers of this visit
    asking,                     \* prompt_param: the property asked for
    question,                   \* prompt_param: its compiled question
    edits                       \* answers that changed what was offered

config == <<pipeline, pipeline_revision, web_id, params_in, save_all,
            use_params_file, show_hidden>>

launcher == <<schema, schema_defaults, input_params, nxf_flags, params_user,
              cli_launch, nextflow_cmd>>

urls == <<web_schema_launch_web_url, web_schema_launch_api_url>>

web == <<web_response, polls, browser_opened>>

world == <<params_out, process_started>>

logs == <<log_errors, log_warnings>>

session == <<p_idx, answers, g_answers, asking, question, edits>>

vars == <<pc, result, pipeline, pipeline_revision, web_id, params_in, save_all,
          use_params_file, show_hidden, schema, schema_defaults, input_params,
          nxf_flags, params_user, cli_launch, nextflow_cmd,
          web_schema_launch_web_url, web_schema_launch_api_url,
          web_response, polls, browser_opened, log_errors, log_warnings,
          params_out, process_started, p_idx, answers, g_answers, asking,
          question, edits>>

NotAsking == [id |-> "", group |-> 0, is_required |-> FALSE]

NoQuestion == [type |-> "none"]

NoResponse == [kind |-> "none"]

NoFileOnDisk == [exists |-> FALSE, content |-> <<>>]

\* the launches the model starts: __init__
Launches ==
    { c \in [pipeline : {NoneStr, "rnaseq", "./dir"},
             revision : {NoneStr, "dev"},
             web_id : WebIds,
             params_in : ParamsFiles,
             save_all : BOOLEAN,
             command_only : BOOLEAN,
             show_hidden : BOOLEAN,
             out_exists : BOOLEAN] :
        /\ c.revision = "dev" =>
              c.pipeline = "rnaseq" /\ c.params_in = NoFile /\ ~c.save_all
        /\ c.pipeline = "./dir" => c.params_in = NoFile /\ ~c.save_all /\ ~c.command_only
        /\ c.show_hidden => c.pipeline = "./dir"
        /\ c.web_id # NoneStr => c.pipeline = NoneStr
        /\ c.pipeline = NoneStr /\ c.web_id = NoneStr =>
              c.params_in = NoFile /\ ~c.save_all /\ ~c.command_only
        /\ c.out_exists => c.params_in = NoFile /\ ~c.save_all /\ c.revision = NoneStr }

Init ==
    \E c \in Launches :
        /\ pc = "start"
        /\ result = "running"
        /\ pipeline = c.pipeline
        /\ pipeline_revision = c.revision
        /\ web_id = c.web_id
        /\ params_in = c.params_in
        /\ save_all = c.save_all
        /\ use_params_file = ~c.command_only
        /\ show_hidden = c.show_hidden
        /\ schema = EmptySchema
        /\ schema_defaults = <<>>
        /\ input_params = <<>>
        /\ nxf_flags = <<>>
        /\ params_user = <<>>
        /\ cli_launch = TRUE
        /\ nextflow_cmd = <<"nextflow run ", c.pipeline>>
        /\ web_schema_launch_web_url =
              IF c.web_id # NoneStr THEN <<BaseUrl, "?id=", c.web_id>> ELSE <<>>
        /\ web_schema_launch_api_url =
              IF c.web_id # NoneStr THEN <<BaseUrl, "?id=", c.web_id, "&api=true">> ELSE <<>>
        /\ web_response = NoResponse
        /\ polls = 0
        /\ browser_opened = FALSE
        /\ log_errors = {}
        /\ log_warnings = {}
        /\ params_out = [exists |-> c.out_exists, content |-> <<>>]
        /\ process_started = FALSE
        /\ p_idx = 1
        /\ answers = <<>>
        /\ g_answers = <<>>
        /\ asking = NotAsking
        /\ question = NoQuestion
        /\ edits = 0

(***************************************************************************)
(* Responses of the web API.                                               *)
(***************************************************************************)
Resp(status) ==
    [kind |-> "poll", status |-> status, hasMessage |-> FALSE, message |-> "",
     missing |-> {}, nxf_flags |-> <<>>, input_params |-> <<>>,
     schema |-> EmptySchema, cli_launch |-> TRUE, nextflow_cmd |-> <<>>,
     pipeline |-> NoneStr, revision |-> NoneStr]

\* what the form holds besides the values: in a launch that resumes from a
\* web id, what the creating launch sent; otherwise what this launch sent
RemoteSessions ==
    IF web_id # NoneStr
    THEN { [Resp("launch_params_complete") EXCEPT
               !.schema = [s EXCEPT !.properties = merge_nxf_flag_schema(s.properties)],
               !.nextflow_cmd = RemoteOrigin.nextflow_cmd,
               !.pipeline = RemoteOrigin.pipeline,
               !.revision = RemoteOrigin.revision] : s \in PipelineSchemas }
    ELSE { [Resp("launch_params_complete") EXCEPT
               !.schema = schema,
               !.nextflow_cmd = nextflow_cmd,
               !.pipeline = pipeline,
               !.revision = pipeline_revision] }

PollResponses ==
    {Resp("waiting_for_user"), Resp("error"), Resp("unknown_status"),
     [Resp("error") EXCEPT !.hasMessage = TRUE, !.message = "x"]}
    \cup { [s EXCEPT !.nxf_flags = f, !.input_params = p] :
              s \in RemoteSessions, f \in RemoteFlagMaps, p \in RemoteParamMaps }
    \cup { [s EXCEPT !.nxf_flags = <<Entry("-profile", PyStr(<<"t">>))>>,
                     !.input_params = <<Entry("a", PyStr(<<"4">>))>>,
                     !.missing = {k}] :
              s \in RemoteSessions,
              k \in {ResponseKeys[i] : i \in 1..Len(ResponseKeys)} }

\* the direct responses to the submission of launch_web_gui
SubmitResponses ==
    [kind : {"submit"}, hasApiUrl : BOOLEAN, hasWebUrl : BOOLEAN,
     status : {"recieved", "received", "error"}]

(***************************************************************************)
(* launch_pipeline, step by step.                                          *)
(***************************************************************************)
\* log.error(...); return False
Fail(msg) ==
    /\ log_errors' = log_errors \cup {msg}
    /\ result' = "False"
    /\ pc' = "done"

\* lines 105-110: a pipeline name or a web id is needed
CheckArgs ==
    /\ pc = "start"
    /\ IF pipeline = NoneStr /\ web_id = NoneStr
       THEN Fail(Msg("Either a pipeline name or web cache ID is required.", <<>>))
       ELSE /\ pc' = "check_params_out"
            /\ UNCHANGED <<result, log_errors>>
    /\ UNCHANGED <<config, launcher, urls, web, world, log_warnings, session>>

AfterParamsOut == IF web_id # NoneStr THEN "first_poll" ELSE "get_pipeline_schema"

\* lines 112-120: an existing output file is deleted only when the user agrees
CheckParamsOut ==
    /\ pc = "check_params_out"
    /\ IF params_out.exists
       THEN \E overwrite \in BOOLEAN :
               IF overwrite
               THEN /\ params_out' = NoFileOnDisk
                    /\ pc' = AfterParamsOut
                    /\ UNCHANGED result
               ELSE /\ result' = "False"
                    /\ pc' = "done"
                    /\ UNCHANGED params_out
       ELSE /\ pc' = AfterParamsOut
            /\ UNCHANGED <<result, params_out>>
    /\ UNCHANGED <<config, launcher, urls, web, logs, process_started, session>>

\* the launcher fields get_web_launch_response may assign
PollFields ==
    [nxf_flags |-> nxf_flags, input_params |-> input_params, schema |-> schema,
     cli_launch |-> cli_launch, nextflow_cmd |-> nextflow_cmd,
     pipeline |-> pipeline, pipeline_revision |-> pipeline_revision]

\* one call of get_web_launch_response that received r, with outcome o
Polled(r, o) ==
    /\ web_response' = r
    /\ nxf_flags' = o.st.nxf_flags
    /\ input_params' = o.st.input_params
    /\ schema' = o.st.schema
    /\ cli_launch' = o.st.cli_launch
    /\ nextflow_cmd' = o.st.nextflow_cmd
    /\ pipeline' = o.st.pipeline
    /\ pipeline_revision' = o.st.pipeline_revision
    /\ polls' = polls + 1
    /\ CASE o.returns = "False" ->
               /\ pc' = "wait_poll"
               /\ UNCHANGED <<result, log_errors>>
         [] o.returns = "True" ->
               /\ pc' = IF web_id # NoneStr THEN "web_id_inputs" ELSE "validate_params"
               /\ UNCHANGED <<result, log_errors>>
         [] OTHER -> Fail(o.error)
    /\ UNCHANGED <<web_id, params_in, save_all, use_params_file, show_hidden,
                   schema_defaults, params_user, urls, browser_opened,
                   log_warnings, world, session>>

Poll(r) ==
    /\ r.status = "waiting_for_user" => polls < MaxPolls
    /\ Polled(r, get_web_launch_response(PollFields, r, web_schema_launch_api_url))

\* line 128: the first poll of a launch that resumes from a web id
FirstPoll == pc = "first_poll" /\ \E r \in PollResponses : Poll(r)

\* lines 133 and 298: wait_cli_function polls until the call returns True
WaitPoll == pc = "wait_poll" /\ \E r \in PollResponses : Poll(r)

\* wait_cli_function: the user interrupts the wait
CancelWait ==
    /\ pc = "wait_poll"
    /\ Fail(Msg("Cancelled!", <<>>))
    /\ UNCHANGED <<config, launcher, urls, web, world, log_warnings, session>>

\* lines 138-143: flatten, load the parameter file, then load the defaults
WebIdInputs ==
    /\ pc = "web_id_inputs"
    /\ input_params' = set_schema_inputs(input_params, schema_defaults, params_in)
    /\ schema_defaults' = get_schema_defaults(schema.properties)
    /\ pc' = "validate_params"
    /\ UNCHANGED <<result, config, schema, nxf_flags, params_user, cli_launch,
                   nextflow_cmd, urls, web, world, logs, session>>

(***************************************************************************)
(* The non-web-id flow up to the choice of the launch method.              *)
(***************************************************************************)
\* os.path.exists(self.pipeline)
IsLocalDir(p) == p = "./dir"

\* self.pipeline.count("/") == 0
HasNoSlash(p) == p \notin {"./dir", "org/pipe"}

\* lines 182-192: the command prefix
CommandPrefix(p, revision) ==
    IF IsLocalDir(p) THEN <<"nextflow run ", "/cwd/", p>>
    ELSE (IF HasNoSlash(p) THEN <<"nextflow run ", "nf-core/", p>>
          ELSE <<"nextflow run ", p>>)
         \o (IF revision # NoneStr THEN <<" -r ", revision>> ELSE <<>>)

\* get_pipeline_schema: the schema is loaded (or built from the config), or
\* the launch ends
GetPipelineSchema ==
    /\ pc = "get_pipeline_schema"
    /\ nextflow_cmd' = CommandPrefix(pipeline, pipeline_revision)
    /\ \/ \E s \in PipelineSchemas :
             /\ schema' = s
             /\ schema_defaults' = get_schema_defaults(s.properties)
             /\ pc' = "set_schema_inputs"
             /\ UNCHANGED <<result, log_errors>>
       \/ /\ Fail(Msg("Could not find pipeline: {} ({})", <<pipeline>>))
          /\ UNCHANGED <<schema, schema_defaults>>
    /\ UNCHANGED <<config, input_params, nxf_flags, params_user, cli_launch,
                   urls, web, world, log_warnings, session>>

\* lines 150-151: set_schema_inputs, then merge_nxf_flag_schema
SetSchemaInputs ==
    /\ pc = "set_schema_inputs"
    /\ input_params' = set_schema_inputs(input_params, schema_defaults, params_in)
    /\ schema' = [schema EXCEPT !.properties = merge_nxf_flag_schema(schema.properties)]
    /\ pc' = "prompt_web_gui"
    /\ UNCHANGED <<result, config, schema_defaults, nxf_flags, params_user,
                   cli_launch, nextflow_cmd, urls, web, world, logs, session>>

\* an abort that is taken for the end of the wizard
InterruptGoesOn ==
    /\ pc' = "validate_params"
    /\ result' = "KeyboardInterrupt"

\* an empty answer of a prompt: KeyboardInterrupt, which nothing catches
Interrupt ==
    /\ pc' = "raised"
    /\ result' = "KeyboardInterrupt"

\* prompt_web_gui: web form, command-line wizard, or the user aborts
PromptWebGui ==
    /\ pc = "prompt_web_gui"
    /\ \/ \E use_web_gui \in {"Web based", "Command line"} :
             /\ pc' = IF use_web_gui = "Web based" THEN "launch_web_gui" ELSE "prompt_schema"
             /\ UNCHANGED result
       \/ Interrupt
    /\ UNCHANGED <<config, launcher, urls, web, world, logs, session>>

\* a check of the submission that does not look at the status
SubmitAcceptedAnyStatus(r) == r.hasApiUrl /\ r.hasWebUrl

\* lines 279-282: the three assertions on the direct response
SubmitAccepted(r) == r.hasApiUrl /\ r.hasWebUrl /\ r.status = "recieved"

\* launch_web_gui up to the wait: the schema is posted and the direct
\* response checked
LaunchWebGui ==
    /\ pc = "launch_web_gui"
    /\ \E r \in SubmitResponses :
          /\ web_response' = r
          /\ IF SubmitAccepted(r)
             THEN /\ web_schema_launch_web_url' = <<BaseUrl, "?id=", "id2">>
                  /\ web_schema_launch_api_url' = <<BaseUrl, "?id=", "id2", "&api=true">>
                  /\ browser_opened' = TRUE
                  /\ pc' = "wait_poll"
                  /\ UNCHANGED <<result, log_errors>>
             ELSE /\ Fail(Msg("Web launch response not recognised: {}", <<BaseUrl>>))
                  /\ UNCHANGED <<urls, browser_opened>>
    /\ UNCHANGED <<config, launcher, polls, world, log_warnings, session>>

(***************************************************************************)
(* The validators of a compiled question.                                  *)
(***************************************************************************)
\* the characters of [a-zA-Z0-9-_]: letters, digits, and the range from "9"
\* to "_" (the model's texts hold these characters of it)
InNameClass(c) == c \in {"a", "e", "f", "l", "r", "s", "t", "u", "w", "x", "y",
                         "F", "T", "\\", "_"} \/ IsDigit(c)

\* re.search(pattern, val) is not None; "$" also matches before a last newline
Matches(pattern, val) ==
    LET body == IF val # <<>> /\ val[Len(val)] = "\n"
                THEN SubSeq(val, 1, Len(val) - 1) ELSE val
    IN  CASE pattern = "^[a-zA-Z0-9-_]+$" ->
                body # <<>> /\ \A i \in 1..Len(body) : InNameClass(body[i])
          [] pattern = "^\\d+$" -> AllDigits(body)
          [] OTHER -> TRUE

validate_number(val) == Strip(val) = <<>> \/ IsFloatText(val)

validate_integer(val) == Strip(val) = <<>> \/ IsIntText(val)

validate_range(param_obj, val) ==
    \/ Strip(val) = <<>>
    \/ /\ IsFloatText(val)
       /\ param_obj.hasMin => TenthsOfText(val) >= param_obj.minimum * 10
       /\ param_obj.hasMax => TenthsOfText(val) <= param_obj.maximum * 10

validate_enum(param_obj, val) == val = <<>> \/ InSeq(val, param_obj.enum)

validate_pattern(param_obj, val) == val = <<>> \/ Matches(param_obj.pattern, val)

\* question["validate"](val) is True
Valid(validate, param_obj, val) ==
    CASE validate = "number" -> validate_number(val)
      [] validate = "integer" -> validate_integer(val)
      [] validate = "range" -> validate_range(param_obj, val)
      [] validate = "enum" -> validate_enum(param_obj, val)
      [] validate = "pattern" -> validate_pattern(param_obj, val)
      [] OTHER -> TRUE

(***************************************************************************)
(* The command-line wizard: prompt_schema, prompt_group, prompt_param.     *)
(***************************************************************************)
\* what the user may type into a free-text prompt
TextAnswers == {<<" ">>, <<"3">>, <<"x">>}

\* a wizard that shows the hidden properties as well
VisibleAlways(param_obj) == TRUE

\* not param_obj.get("hidden", False) or self.show_hidden
Visible(param_obj) == ~param_obj.hidden \/ show_hidden

\* a prompt_group that takes every child for a leaf
HasNestedGroupNever(group) == FALSE

\* prompt_group: a child that is itself a group ends the group at once
HasNestedGroup(group) ==
    \E i \in 1..Len(group.properties) : group.properties[i].type = "object"

\* prompt_group: question["choices"] after "Continue >>" and the separator
MenuChildren(group) ==
    {group.properties[i].id : i \in {j \in 1..Len(group.properties) :
                                        Visible(group.properties[j])}}

ChildOf(group, id) ==
    group.properties[CHOOSE i \in 1..Len(group.properties) : group.properties[i].id = id]

\* the property prompt_param is asking for
AskedProp ==
    IF asking.group = 0 THEN schema.properties[p_idx]
    ELSE ChildOf(schema.properties[asking.group], asking.id)

\* the schema once the property asked for has been compiled
SchemaAfterAsk(group, param_obj, ans) ==
    IF group = 0
    THEN [schema EXCEPT !.properties[p_idx] =
             ParamObjAfterCompile(param_obj, input_params, ans)]
    ELSE [schema EXCEPT !.properties[group].properties =
             [i \in 1..Len(schema.properties[group].properties) |->
                 IF schema.properties[group].properties[i].id = param_obj.id
                 THEN ParamObjAfterCompile(param_obj, input_params, ans)
                 ELSE schema.properties[group].properties[i]]]

\* prompt_param, lines 396-397: the question is compiled and presented
Ask(group, param_obj, is_required, ans) ==
    LET q == single_param_to_pyinquirer(param_obj, input_params, ans)
    IN  /\ asking' = [id |-> param_obj.id, group |-> group, is_required |-> is_required]
        /\ question' = q
        /\ schema' = SchemaAfterAsk(group, param_obj, ans)
        /\ log_warnings' = IF q.warned
                           THEN log_warnings \cup {Msg("Default value {} not found in list of choices: {}",
                                     <<param_obj.id>>)}
                           ELSE log_warnings
        /\ pc' = "prompt_param"

\* lines 381-391: the answers are split into flags and params, and the
\* params are merged into the input params
RECURSIVE SplitFlags(_, _)
SplitFlags(ans, flags) ==
    IF ans = <<>> THEN flags
    ELSE IF Head(ans).k # NxfGroupId /\ Head(ans).k \in NxfFlagIds
         THEN SplitFlags(Tail(ans), DictSet(flags, Head(ans).k, Head(ans).v))
         ELSE SplitFlags(Tail(ans), flags)

\* a split that sends the answers of the engine flags to the params as well
RECURSIVE SplitParamsAll(_, _)
SplitParamsAll(ans, params) ==
    IF ans = <<>> THEN params
    ELSE IF Head(ans).k # NxfGroupId
         THEN SplitParamsAll(Tail(ans), DictSet(params, Head(ans).k, Head(ans).v))
         ELSE SplitParamsAll(Tail(ans), params)

RECURSIVE SplitParams(_, _)
SplitParams(ans, params) ==
    IF ans = <<>> THEN params
    ELSE IF Head(ans).k # NxfGroupId /\ Head(ans).k \notin NxfFlagIds
         THEN SplitParams(Tail(ans), DictSet(params, Head(ans).k, Head(ans).v))
         ELSE SplitParams(Tail(ans), params)

\* prompt_schema: the loop over the top-level properties, up to the next
\* prompt, and the end of the wizard
PromptSchema ==
    /\ pc = "prompt_schema"
    /\ IF p_idx > Len(schema.properties)
       THEN /\ nxf_flags' = SplitFlags(answers, nxf_flags)
            /\ params_user' = SplitParams(answers, params_user)
            /\ input_params' = DictUpdate(input_params, SplitParams(answers, params_user))
            /\ pc' = "validate_params"
            /\ UNCHANGED <<schema, logs, session>>
       ELSE LET p == schema.properties[p_idx]
            IN  IF ~Visible(p)
                THEN /\ p_idx' = p_idx + 1
                     /\ UNCHANGED <<pc, schema, logs, answers, g_answers, asking,
                                    question, edits, nxf_flags, params_user, input_params>>
                ELSE IF p.type # "object"
                THEN /\ Ask(0, p, InSeq(p.id, schema.required), answers)
                     /\ UNCHANGED <<log_errors, p_idx, answers, g_answers, edits,
                                    nxf_flags, params_user, input_params>>
                ELSE IF HasNestedGroup(p)
                THEN /\ log_errors' = log_errors
                           \cup {Msg("nf-core only supports groups 1-level deep", <<>>)}
                     /\ p_idx' = p_idx + 1
                     /\ UNCHANGED <<pc, schema, log_warnings, answers, g_answers, asking,
                                    question, edits, nxf_flags, params_user, input_params>>
                ELSE IF MenuChildren(p) = {}
                THEN /\ p_idx' = p_idx + 1
                     /\ UNCHANGED <<pc, schema, logs, answers, g_answers, asking,
                                    question, edits, nxf_flags, params_user, input_params>>
                ELSE /\ pc' = "prompt_group"
                     /\ g_answers' = <<>>
                     /\ UNCHANGED <<schema, logs, p_idx, answers, asking, question,
                                    edits, nxf_flags, params_user, input_params>>
    /\ UNCHANGED <<result, config, schema_defaults, cli_launch, nextflow_cmd,
                   urls, web, world>>

\* a menu that lets Continue through whatever is missing
LacksRequiredNever(group, id) == FALSE

\* a required child has neither a value in the input params nor an answer
LacksRequired(group, id) ==
    /\ IF DictHas(input_params, id)
       THEN PyEq(DictGet(input_params, id), PyStr(<<>>)) ELSE TRUE
    /\ IF DictHas(g_answers, id)
       THEN PyEq(DictGet(g_answers, id), PyStr(<<>>)) ELSE TRUE

\* prompt_group: one showing of the menu
PromptGroup ==
    /\ pc = "prompt_group"
    /\ LET group == schema.properties[p_idx]
           lacking == {group.required[i] : i \in {j \in 1..Len(group.required) :
                                                     LacksRequired(group, group.required[j])}}
       IN  \/ /\ IF lacking = {}
                 THEN /\ answers' = DictUpdate(answers, g_answers)
                      /\ p_idx' = p_idx + 1
                      /\ pc' = "prompt_schema"
                      /\ UNCHANGED log_errors
                 ELSE /\ log_errors' = log_errors
                            \cup {Msg("'{}' is required.", <<id>>) : id \in lacking}
                      /\ UNCHANGED <<answers, p_idx, pc>>
              /\ UNCHANGED <<result, schema, log_warnings, g_answers, asking, question>>
           \/ \E id \in MenuChildren(group) :
                 /\ Ask(p_idx, ChildOf(group, id), InSeq(id, group.required), g_answers)
                 /\ UNCHANGED <<result, log_errors, answers, p_idx, g_answers>>
           \/ /\ Interrupt
              /\ UNCHANGED <<schema, logs, answers, p_idx, g_answers, asking, question>>
    /\ UNCHANGED <<config, schema_defaults, input_params, nxf_flags, params_user,
                   cli_launch, nextflow_cmd, urls, web, world, edits>>

\* what the prompt returns when the user only presses Enter
Offered ==
    IF question.type = "list" THEN question.choices[1]
    ELSE IF question.hasDefault THEN question.default ELSE <<>>

\* what the prompt lets the user give: a choice of a list, or a text its
\* validator accepts
Accepted ==
    IF question.type = "list"
    THEN {question.choices[i] : i \in 1..Len(question.choices)}
    ELSE {val \in TextAnswers \cup {Offered} : Valid(question.validate, AskedProp, val)}

\* a prompt that takes a blank answer of a required property
AskAgainNever(answer, is_required) == FALSE

\* line 404: a required property is asked again after a blank answer
AskAgain(answer, is_required) ==
    answer.t = "str" /\ Strip(answer.s) = <<>> /\ is_required

\* prompt_param from the first PyInquirer.prompt on: one answer of the user
PromptParam ==
    /\ pc = "prompt_param"
    /\ \/ \E val \in Accepted :
             LET answer == ApplyFilter(question.filter, PyStr(val))
             IN  /\ val # Offered => edits < MaxEdits
                 /\ edits' = IF val # Offered THEN edits + 1 ELSE edits
                 /\ IF answer = Raised
                    THEN /\ pc' = "raised"
                         /\ result' = "ValueError"
                         /\ UNCHANGED <<log_errors, answers, g_answers, asking, question>>
                    ELSE IF AskAgain(answer, asking.is_required)
                    THEN /\ log_errors' = log_errors
                               \cup {Msg("This property is required.", <<>>)}
                         /\ UNCHANGED <<pc, result, answers, g_answers, asking, question>>
                    ELSE /\ pc' = IF asking.group = 0 THEN "prompt_schema" ELSE "prompt_group"
                         /\ answers' = IF asking.group = 0 /\ ~PyEq(answer, PyStr(<<>>))
                                       THEN DictUpdate(answers, <<Entry(asking.id, answer)>>)
                                       ELSE answers
                         /\ g_answers' = IF asking.group # 0 /\ ~PyEq(answer, PyStr(<<>>))
                                         THEN DictUpdate(g_answers, <<Entry(asking.id, answer)>>)
                                         ELSE g_answers
                         /\ asking' = NotAsking
                         /\ question' = NoQuestion
                         /\ UNCHANGED <<result, log_errors>>
                 /\ p_idx' = IF asking.group = 0 /\ pc' = "prompt_schema"
                             THEN p_idx + 1 ELSE p_idx
       \/ /\ Interrupt
          /\ UNCHANGED <<log_errors, answers, g_answers, asking, question, edits, p_idx>>
    /\ UNCHANGED <<config, launcher, urls, web, world, log_warnings>>

(***************************************************************************)
(* Validation, default stripping, the command and the launch.              *)
(***************************************************************************)
\* a validation whose failure is reported, while the launch goes on
ValidateParamsGoesOn ==
    /\ pc = "validate_params"
    /\ \E valid \in BOOLEAN :
          /\ pc' = IF save_all THEN "build_command" ELSE "strip_default_params"
          /\ result' = IF valid THEN result ELSE "False"
    /\ UNCHANGED <<config, launcher, urls, web, world, logs, session>>

\* lines 164-166: the Schema Service validates the parameters
ValidateParams ==
    /\ pc = "validate_params"
    /\ \E valid \in BOOLEAN :
          IF valid
          THEN /\ pc' = IF save_all THEN "build_command" ELSE "strip_default_params"
               /\ UNCHANGED result
          ELSE /\ result' = "False"
               /\ pc' = "done"
    /\ UNCHANGED <<config, launcher, urls, web, world, logs, session>>

\* strip_default_params
StripDefaultParams ==
    /\ pc = "strip_default_params"
    /\ input_params' = StripSchemaDefaults(input_params, schema_defaults)
    /\ nxf_flags' = StripFlagDefaults(nxf_flags, nxf_flag_schema.properties)
    /\ pc' = "build_command"
    /\ UNCHANGED <<result, config, schema, schema_defaults, params_user, cli_launch,
                   nextflow_cmd, urls, web, world, logs, session>>

ParamsOutName == "nf-params.json"

\* a build_command that names the file and the single params as well
BuildCommandFileAndInline ==
    /\ pc = "build_command"
    /\ nextflow_cmd' =
          nextflow_cmd \o FlagsText(nxf_flags)
          \o (IF Len(input_params) > 0 /\ use_params_file
              THEN Quoted("-params-file", <<ParamsOutName>>) ELSE <<>>)
          \o ParamsText(input_params)
    /\ params_out' = IF Len(input_params) > 0 /\ use_params_file
                     THEN [exists |-> TRUE, content |-> input_params]
                     ELSE params_out
    /\ pc' = "launch_workflow"
    /\ UNCHANGED <<result, config, schema, schema_defaults, input_params, nxf_flags,
                   params_user, cli_launch, urls, web, process_started, logs, session>>

\* build_command
BuildCommand ==
    /\ pc = "build_command"
    /\ IF FlagsRaise(nxf_flags)
       THEN /\ nextflow_cmd' = nextflow_cmd \o FlagsText(FlagsBeforeRaise(nxf_flags))
            /\ pc' = "raised"
            /\ result' = "AttributeError"
            /\ UNCHANGED params_out
       ELSE /\ nextflow_cmd' =
                  nextflow_cmd \o FlagsText(nxf_flags)
                  \o (IF Len(input_params) = 0 THEN <<>>
                      ELSE IF use_params_file
                      THEN Quoted("-params-file", <<ParamsOutName>>)
                      ELSE ParamsText(input_params))
            /\ params_out' = IF Len(input_params) > 0 /\ use_params_file
                             THEN [exists |-> TRUE, content |-> input_params]
                             ELSE params_out
            /\ pc' = "launch_workflow"
            /\ UNCHANGED result
    /\ UNCHANGED <<config, schema, schema_defaults, input_params, nxf_flags,
                   params_user, cli_launch, urls, web, process_started, logs, session>>

\* launch_workflow: the command is run when the user agrees
LaunchWorkflow ==
    /\ pc = "launch_workflow"
    /\ \E run \in BOOLEAN : process_started' = run
    /\ result' = "None"
    /\ pc' = "done"
    /\ UNCHANGED <<config, launcher, urls, web, params_out, logs, session>>

Next ==
    \/ CheckArgs
    \/ CheckParamsOut
    \/ FirstPoll
    \/ WaitPoll
    \/ CancelWait
    \/ WebIdInputs
    \/ GetPipelineSchema
    \/ SetSchemaInputs
    \/ PromptWebGui
    \/ LaunchWebGui
    \/ PromptSchema
    \/ PromptGroup
    \/ PromptParam
    \/ ValidateParams
    \/ StripDefaultParams
    \/ BuildCommand
    \/ LaunchWorkflow

Spec == Init /\ [][Next]_vars

(***************************************************************************)
(* What the properties below speak of.                                     *)
(***************************************************************************)
\* the identifiers of workflow parameters in the schemas and maps above
WorkflowIds == {"a", "b", "flag", "e", "h"}

\* the last response is a completed form
IsComplete(r) == r.kind = "poll" /\ r.status = "launch_params_complete"

\* a value whose text is not blank
NonBlank(v) == Strip(PyToStr(v)) # <<>>

\* the web form returned a non-empty value for id
RemoteSupplies(id) ==
    /\ IsComplete(web_response)
    /\ DictHas(web_response.input_params, id)
    /\ NonBlank(DictGet(web_response.input_params, id))

\* the web form returned the empty string for id, or left it out
RemoteBlankOrOmitted(id) ==
    /\ IsComplete(web_response)
    /\ DictHas(web_response.input_params, id)
          => ~NonBlank(DictGet(web_response.input_params, id))

\* the typed value of what the web form returned for id
RemoteValue(id) ==
    ApplyFilter(FilterFor(Leaves(schema.properties), id),
                DictGet(web_response.input_params, id))

Supplies(source, id) ==
    CASE source = "remote" -> RemoteSupplies(id)
      [] source = "session" -> DictHas(answers, id) /\ NonBlank(DictGet(answers, id))
      [] source = "file" -> DictHas(params_in, id) /\ NonBlank(DictGet(params_in, id))
      [] OTHER -> DictHas(schema_defaults, id) /\ NonBlank(DictGet(schema_defaults, id))

SourceValue(source, id) ==
    CASE source = "remote" -> RemoteValue(id)
      [] source = "session" -> DictGet(answers, id)
      [] source = "file" -> DictGet(params_in, id)
      [] OTHER -> DictGet(schema_defaults, id)

\* the sources from the lowest precedence to the highest
Precedence == <<"default", "file", "session", "remote">>

HighestSource(id) ==
    Precedence[CHOOSE i \in 1..4 :
                  /\ Supplies(Precedence[i], id)
                  /\ \A j \in (i + 1)..4 : ~Supplies(Precedence[j], id)]

\* every source has been applied: the input params are final but for the
\* stripping of defaults
Reconciled == pc = "validate_params"

(***************************************************************************)
(* Steps of the poll, for the properties of the poll.                       *)
(***************************************************************************)
\* this step is a call of get_web_launch_response; web_response' is what it
\* received
PollStep == polls' = polls + 1

\* the call read the key of a completed response
KeyRead(r, key) ==
    \E i \in 1..KeysRead(r) : ResponseKeys[i] = key

\* the map sanitise_web_response works on: the returned one when it was read
\* and is not empty, else the one held before the poll
SanitisedFrom(r, key, returned, held) ==
    IF KeyRead(r, key) /\ Len(returned) > 0 THEN returned ELSE held

\* the keys of src that out still has, in the order of src
RECURSIVE KeysIn(_, _)
KeysIn(src, out) ==
    IF src = <<>> THEN <<>>
    ELSE IF DictHas(out, Head(src).k) THEN <<Head(src).k>> \o KeysIn(Tail(src), out)
    ELSE KeysIn(Tail(src), out)

\* this step is a poll that returned True
PollSucceeded ==
    /\ PollStep
    /\ IsComplete(web_response')
    /\ pc' \in {"web_id_inputs", "validate_params"}

(***************************************************************************)
(* C1.  For every identifier that several sources supply a non-empty value *)
(* for, the final input value is the one of the highest source, with       *)
(* defaults < parameter file < session answers < web form.                 *)
(* The code does not keep this: see C3.                                    *)
(***************************************************************************)
C1_HighestSourceWins ==
    Reconciled =>
        \A id \in WorkflowIds :
            Cardinality({i \in 1..4 : Supplies(Precedence[i], id)}) >= 2 =>
                /\ DictHas(input_params, id)
                /\ DictGet(input_params, id) = SourceValue(HighestSource(id), id)

(***************************************************************************)
(* C2.  As claimed, for a launch that opens the form itself (defaults and  *)
(* file are loaded before the poll): when the web form returns values but  *)
(* the empty string for an identifier, or leaves it out, the value of the  *)
(* parameter file, else of the defaults, is the final input value, and the *)
(* identifier is unset when neither has one.                               *)
(***************************************************************************)
C2_LowerValueKept ==
    (/\ Reconciled
     /\ web_id = NoneStr
     /\ IsComplete(web_response)
     /\ Len(web_response.input_params) > 0) =>
        \A id \in WorkflowIds :
            RemoteBlankOrOmitted(id) =>
                IF Supplies("file", id)
                THEN DictHas(input_params, id)
                     /\ DictGet(input_params, id) = DictGet(params_in, id)
                ELSE IF Supplies("default", id)
                THEN DictHas(input_params, id)
                     /\ DictGet(input_params, id) = DictGet(schema_defaults, id)
                ELSE ~DictHas(input_params, id)

(***************************************************************************)
(* C2, amended.  A non-empty input_params mapping of the web form replaces *)
(* the input values held before: when the poll returns, an identifier the  *)
(* form returned as the empty string, or left out, is unset whatever the   *)
(* defaults or the parameter file held for it; in a launch that opened the *)
(* form itself this is final, no lower source is applied again.            *)
(***************************************************************************)
C2_BlankRemoteIsUnset ==
    /\ [][PollSucceeded /\ Len(web_response'.input_params) > 0 =>
             \A id \in WorkflowIds :
                 (DictHas(web_response'.input_params, id)
                     => ~NonBlank(DictGet(web_response'.input_params, id)))
                 => ~DictHas(input_params', id)]_vars
    /\ []((/\ Reconciled
           /\ web_id = NoneStr
           /\ IsComplete(web_response)
           /\ Len(web_response.input_params) > 0) =>
             \A id \in WorkflowIds :
                 RemoteBlankOrOmitted(id) => ~DictHas(input_params, id))

\* the form returned b as the empty string; the file and nothing else had b
C2_Witness ==
    /\ Reconciled
    /\ web_id = NoneStr
    /\ IsComplete(web_response)
    /\ DictHas(web_response.input_params, "b")
    /\ ~NonBlank(DictGet(web_response.input_params, "b"))
    /\ DictHas(params_in, "b")
    /\ ~DictHas(input_params, "b")
    /\ DictHas(input_params, "a")

(***************************************************************************)
(* C3.  In a launch that resumes from a web id with a parameter file, a    *)
(* non-empty value of the web form is the final input value also of an     *)
(* identifier the file sets.                                               *)
(***************************************************************************)
C3_RemoteOutranksFile ==
    Reconciled /\ web_id # NoneStr /\ params_in # NoFile =>
        \A id \in WorkflowIds :
            RemoteSupplies(id) /\ Supplies("file", id) =>
                /\ DictHas(input_params, id)
                /\ DictGet(input_params, id) = RemoteValue(id)

(***************************************************************************)
(* C4.  A poll answered waiting_for_user does not end the wait: the call   *)
(* reports not-done (the launch stays in the wait loop and has returned    *)
(* nothing), flags, input params, schema, command, pipeline and revision   *)
(* are unchanged; the loop is left by the first poll with another status,  *)
(* so the launch is in the loop only while every poll said waiting.        *)
(***************************************************************************)
C4_WaitingKeepsPolling ==
    /\ [][PollStep /\ web_response'.status = "waiting_for_user" =>
             /\ pc' = "wait_poll"
             /\ result' = "running"
             /\ UNCHANGED <<nxf_flags, input_params, schema, cli_launch,
                            nextflow_cmd, pipeline, pipeline_revision>>]_vars
    /\ [][PollStep /\ web_response'.status # "waiting_for_user" =>
             pc' \notin {"first_poll", "wait_poll"}]_vars
    /\ [](pc = "wait_poll" /\ web_response.kind = "poll" =>
             web_response.status = "waiting_for_user")

\* two polls said waiting while the launch held input params
C4_Witness ==
    /\ pc = "wait_poll"
    /\ polls = 2
    /\ web_response.kind = "poll"
    /\ web_response.status = "waiting_for_user"
    /\ Len(input_params) > 0

(***************************************************************************)
(* C5.  A poll answered with status error aborts the launch: the error     *)
(* logged holds the response's message, the launch has returned False, no  *)
(* command was built, no parameter file written and no process started.    *)
(***************************************************************************)
C5_ErrorAborts ==
    web_response.kind = "poll" /\ web_response.status = "error" =>
        /\ pc = "done"
        /\ result = "False"
        /\ \E m \in log_errors :
              /\ m.template = "Got error from launch API ({})"
              /\ web_response.hasMessage => m.args = <<web_response.message>>
        /\ nextflow_cmd = IF web_id # NoneStr THEN <<"nextflow run ", pipeline>>
                          ELSE CommandPrefix(pipeline, pipeline_revision)
        /\ ~params_out.exists
        /\ ~process_started

\* the form of a launch that opened it answered error with message "x"
C5_Witness ==
    /\ web_response.kind = "poll"
    /\ web_response.status = "error"
    /\ web_response.hasMessage
    /\ web_id = NoneStr
    /\ Msg("Got error from launch API ({})", <<"x">>) \in log_errors
    /\ result = "False"

(***************************************************************************)
(* C6.  As claimed: when the completed response's nxf_flags (input_params) *)
(* mapping is empty, the flags (input params) held before the poll are     *)
(* left untouched.                                                         *)
(***************************************************************************)
C6_EmptyMappingLeavesUntouched ==
    [][PollStep /\ IsComplete(web_response') =>
          /\ Len(web_response'.nxf_flags) = 0 => nxf_flags' = nxf_flags
          /\ Len(web_response'.input_params) = 0 => input_params' = input_params]_vars

\* the form returned no input params; the integer default held as a number
\* made the sanitisation raise, and the launch ended
C6_Witness ==
    /\ web_id = NoneStr
    /\ IsComplete(web_response)
    /\ web_response.missing = {}
    /\ Len(web_response.input_params) = 0
    /\ DictHas(input_params, "a")
    /\ DictGet(input_params, "a") = PyInt(1)
    /\ pc = "done"
    /\ result = "False"
    /\ Msg("Unknown exception ({}) - see verbose log for details. {}", <<"Exception">>)
          \in log_errors

(***************************************************************************)
(* C7.  A poll answered with a status other than waiting_for_user,         *)
(* launch_params_complete and error ends the launch: it returns False with *)
(* an error that holds the status and the URL polled, and the response     *)
(* changes nothing of the launcher.                                        *)
(***************************************************************************)
C7_UnknownStatusAborts ==
    [][PollStep /\ web_response'.status \notin
                      {"waiting_for_user", "launch_params_complete", "error"} =>
          /\ pc' = "done"
          /\ result' = "False"
          /\ \E m \in log_errors' :
                m.args = <<web_response'.status, web_schema_launch_api_url>>
          /\ UNCHANGED <<config, launcher, urls, world>>]_vars

\* an unknown status ended a launch that held input params
C7_Witness ==
    /\ web_response.kind = "poll"
    /\ web_response.status = "unknown_status"
    /\ pc = "done"
    /\ Len(input_params) > 0
    /\ Len(web_schema_launch_api_url) > 0

(***************************************************************************)
(* C8.  The submission goes on only if its direct response has api_url,    *)
(* web_url and the status "recieved"; otherwise the launch ends with the   *)
(* protocol error, the stored URLs are not changed, the browser is not     *)
(* opened and no poll is made.                                             *)
(***************************************************************************)
C8_SubmissionChecked ==
    /\ [][pc = "launch_web_gui" /\ pc' # pc =>
             IF /\ web_response'.hasApiUrl
                /\ web_response'.hasWebUrl
                /\ web_response'.status = "recieved"
             THEN /\ pc' = "wait_poll"
                  /\ browser_opened'
                  /\ web_schema_launch_api_url' # web_schema_launch_api_url
             ELSE /\ pc' = "done"
                  /\ result' = "False"
                  /\ Msg("Web launch response not recognised: {}", <<BaseUrl>>)
                        \in log_errors'
                  /\ UNCHANGED urls
                  /\ ~browser_opened'
                  /\ polls' = 0]_vars
    /\ [](web_response.kind = "submit" /\ web_response.status # "recieved" =>
             pc = "done" /\ polls = 0 /\ ~browser_opened)

\* both URLs came back, the status was misspelt the other way
C8_Witness ==
    /\ web_response.kind = "submit"
    /\ web_response.hasApiUrl
    /\ web_response.hasWebUrl
    /\ web_response.status = "received"
    /\ pc = "done"
    /\ web_schema_launch_api_url = <<>>

\* out is src with every value filtered first and the blank outputs dropped
FilteredThenDropped(src, out, leaves) ==
    \A i \in 1..Len(src) :
        IF NonBlank(ApplyFilter(FilterFor(leaves, src[i].k), src[i].v))
        THEN /\ DictHas(out, src[i].k)
             /\ DictGet(out, src[i].k) = ApplyFilter(FilterFor(leaves, src[i].k), src[i].v)
        ELSE ~DictHas(out, src[i].k)

\* out is src with the blank values dropped first and the others filtered
DroppedThenFiltered(src, out, leaves) ==
    /\ DictKeys(out) = KeysIn(src, out)
    /\ \A i \in 1..Len(src) :
          IF NonBlank(src[i].v)
          THEN /\ DictHas(out, src[i].k)
               /\ DictGet(out, src[i].k) = ApplyFilter(FilterFor(leaves, src[i].k), src[i].v)
          ELSE ~DictHas(out, src[i].k)
    /\ \A i \in 1..Len(out) : NonBlank(out[i].v)

(***************************************************************************)
(* C9.  As claimed: the returned value of every entry is passed through    *)
(* the filter of its property first, and the entries whose filtered value  *)
(* is blank are dropped afterwards, so a boolean returned as the empty     *)
(* string is held as false.                                                *)
(***************************************************************************)
C9_FilterThenDrop ==
    [][PollSucceeded =>
          FilteredThenDropped(SanitisedFrom(web_response', "input_params",
                                            web_response'.input_params, input_params),
                              input_params', Leaves(schema'.properties))]_vars

(***************************************************************************)
(* C9, amended.  After a poll that returned True the entries whose         *)
(* returned value is blank (empty or white space as text) are gone,        *)
(* whatever their filter would have made of them; every other entry holds  *)
(* the output of its property's filter on the returned value, in the       *)
(* returned order; a boolean returned as the empty string is unset.        *)
(***************************************************************************)
C9_DropThenFilter ==
    [][PollSucceeded =>
          /\ DroppedThenFiltered(SanitisedFrom(web_response', "nxf_flags",
                                               web_response'.nxf_flags, nxf_flags),
                                 nxf_flags', Leaves(schema'.properties))
          /\ DroppedThenFiltered(SanitisedFrom(web_response', "input_params",
                                               web_response'.input_params, input_params),
                                 input_params', Leaves(schema'.properties))]_vars

\* the form returned "" for the boolean and "x" for the other parameter: the
\* boolean is unset, the other one kept
C9_Witness ==
    /\ pc \in {"web_id_inputs", "validate_params"}
    /\ IsComplete(web_response)
    /\ DictHas(web_response.input_params, "flag")
    /\ DictGet(web_response.input_params, "flag") = PyStr(<<>>)
    /\ FilterFor(Leaves(schema.properties), "flag") = "boolean"
    /\ ~DictHas(input_params, "flag")
    /\ DictHas(input_params, "e")

\* v equals the default the schema object holds for id
EqualsDeclaredDefault(id, v) ==
    DictHas(schema_defaults, id) /\ PyEq(DictGet(schema_defaults, id), v)

\* the steps from the validation of the params to the start of the workflow
AfterValidation ==
    pc \in {"validate_params", "strip_default_params", "build_command",
            "launch_workflow"}

(***************************************************************************)
(* C10.  The strip of the defaults removes exactly the input params whose  *)
(* value equals the default the schema declares for them and leaves the    *)
(* others as they are; with save-all the strip is not run and a validated  *)
(* launch removes no entry.                                                *)
(***************************************************************************)
C10_StripExactlyDefaults ==
    /\ [][pc = "strip_default_params" /\ pc' # pc =>
             /\ DictKeys(input_params') = KeysIn(input_params, input_params')
             /\ \A i \in 1..Len(input_params) :
                   IF EqualsDeclaredDefault(input_params[i].k, input_params[i].v)
                   THEN ~DictHas(input_params', input_params[i].k)
                   ELSE /\ DictHas(input_params', input_params[i].k)
                        /\ DictGet(input_params', input_params[i].k) = input_params[i].v]_vars
    /\ [][save_all /\ AfterValidation =>
             pc' # "strip_default_params" /\ input_params' = input_params]_vars
    /\ [](pc = "strip_default_params" => ~save_all)

\* of a = 1 (the default) and b = "x" (no default) only b is left
C10_Witness ==
    /\ pc = "build_command"
    /\ ~save_all
    /\ DictHas(schema_defaults, "a")
    /\ DictGet(schema_defaults, "a") = PyInt(1)
    /\ ~DictHas(input_params, "a")
    /\ DictHas(input_params, "b")
    /\ DictGet(input_params, "b") = PyStr(<<"x">>)

(***************************************************************************)
(* The command build_command appends, as the claims C11 to C14 state it.   *)
(***************************************************************************)
\* this step is a build_command that went through
Built == pc = "build_command" /\ pc' = "launch_workflow"

\* the text build_command appended
Appended == SubSeq(nextflow_cmd', Len(nextflow_cmd) + 1, Len(nextflow_cmd'))

\* s starts with p
StartsWith(s, p) == Len(s) >= Len(p) /\ SubSeq(s, 1, Len(p)) = p

\* the text s holds the pieces p in a row
Holds(s, p) ==
    \E i \in 1..(Len(s) - Len(p) + 1) : SubSeq(s, i, i + Len(p) - 1) = p

\* what one engine flag is to contribute (values here hold no double quote)
ExpectedFlag(e) ==
    IF e.v = PyBool(TRUE) THEN <<" ", e.k>>
    ELSE IF e.v = PyBool(FALSE) THEN <<>>
    ELSE <<" ", e.k, " ", "\"">> \o e.v.s \o <<"\"">>

RECURSIVE ExpectedFlags(_)
ExpectedFlags(flags) ==
    IF flags = <<>> THEN <<>>
    ELSE ExpectedFlag(Head(flags)) \o ExpectedFlags(Tail(flags))

(***************************************************************************)
(* C11.  The command gets, for every engine flag of the flags map in turn, *)
(* the bare flag name when the value is boolean true, nothing when it is   *)
(* boolean false, and the name followed by the double-quoted value when    *)
(* the value is not boolean.                                               *)
(***************************************************************************)
C11_FlagsEmitted ==
    [][Built => StartsWith(Appended, ExpectedFlags(nxf_flags))]_vars

\* a command built from a true flag and a text flag
C11_Witness ==
    /\ pc = "launch_workflow"
    /\ nxf_flags = <<Entry("-resume", PyBool(TRUE)), Entry("-profile", PyStr(<<"t">>))>>
    /\ Holds(nextflow_cmd, <<" ", "-resume", " ", "-profile", " ", "\"", "t", "\"">>)

\* a command built while the flags map held a false flag
C11_FalseFlagWitness ==
    /\ pc = "launch_workflow"
    /\ \E i \in 1..Len(nxf_flags) : nxf_flags[i].v = PyBool(FALSE)

\* what one workflow parameter is to contribute in inline mode: the rule of
\* the engine flags with a double hyphen
ExpectedParam(e) ==
    IF e.v = PyBool(TRUE) THEN <<" --", e.k>>
    ELSE IF e.v = PyBool(FALSE) THEN <<>>
    ELSE <<" --", e.k, " ", "\"">> \o PyToStr(e.v) \o <<"\"">>

RECURSIVE ExpectedParams(_)
ExpectedParams(params) ==
    IF params = <<>> THEN <<>>
    ELSE ExpectedParam(Head(params)) \o ExpectedParams(Tail(params))

(***************************************************************************)
(* C12.  In inline mode every workflow parameter contributes by the rule   *)
(* of the engine flags with a double hyphen: only --name when the value is *)
(* boolean true, nothing when it is boolean false, --name "value"          *)
(* otherwise.                                                              *)
(***************************************************************************)
C12_InlineParamsLikeFlags ==
    [][Built /\ ~use_params_file =>
          Appended = ExpectedFlags(nxf_flags) \o ExpectedParams(input_params)]_vars

\* an inline command built from a false boolean parameter holds --flag "False"
C12_Witness ==
    /\ pc = "launch_workflow"
    /\ ~use_params_file
    /\ DictHas(input_params, "flag")
    /\ DictGet(input_params, "flag") = PyBool(FALSE)
    /\ Holds(nextflow_cmd, <<" --", "flag", " ", "\"", "F", "a", "l", "s", "e", "\"">>)

\* how often the piece x occurs in the text s
RECURSIVE Count(_, _)
Count(s, x) ==
    IF s = <<>> THEN 0
    ELSE (IF Head(s) = x THEN 1 ELSE 0) + Count(Tail(s), x)

\* the text s holds the flag --name
HasParamFlag(s, name) ==
    \E i \in 1..(Len(s) - 1) : s[i] = " --" /\ s[i + 1] = name

(***************************************************************************)
(* C13.  With a parameter file and at least one final input value the      *)
(* command names the output file with exactly one -params-file flag and    *)
(* holds no --name flag, and the file written holds exactly the final      *)
(* input values; in inline mode no parameter file is written and every     *)
(* parameter has a --name flag of its own.                                 *)
(***************************************************************************)
C13_FileOrInline ==
    /\ [][Built /\ use_params_file /\ Len(input_params) > 0 =>
             /\ Count(Appended, "-params-file") = 1
             /\ Count(Appended, " --") = 0
             /\ Holds(Appended, <<" ", "-params-file", " ", "\"", ParamsOutName, "\"">>)
             /\ params_out' = [exists |-> TRUE, content |-> input_params]]_vars
    /\ [][Built /\ ~use_params_file =>
             /\ params_out' = params_out
             /\ Count(Appended, "-params-file") = 0
             /\ Count(Appended, " --") = Len(input_params)
             /\ \A i \in 1..Len(input_params) :
                   HasParamFlag(Appended, input_params[i].k)]_vars

\* the flag -resume and two parameters, with a parameter file: bare -resume, a
\* -params-file reference, the two values in the file
C13_Witness ==
    /\ pc = "launch_workflow"
    /\ use_params_file
    /\ DictHas(nxf_flags, "-resume")
    /\ DictGet(nxf_flags, "-resume") = PyBool(TRUE)
    /\ Len(input_params) = 2
    /\ params_out = [exists |-> TRUE, content |-> input_params]
    /\ Count(nextflow_cmd, "-resume") = 1
    /\ Count(nextflow_cmd, "-params-file") = 1
    /\ Count(nextflow_cmd, " --") = 0

\* the same in inline mode: bare -resume and --a "4", no file
C13_InlineWitness ==
    /\ pc = "launch_workflow"
    /\ ~use_params_file
    /\ DictHas(nxf_flags, "-resume")
    /\ DictGet(nxf_flags, "-resume") = PyBool(TRUE)
    /\ ~params_out.exists
    /\ Holds(nextflow_cmd, <<" --", "a", " ", "\"", "4">>)

\* the names of the --name flags of the text s, in their order
RECURSIVE ParamNames(_)
ParamNames(s) ==
    IF Len(s) < 2 THEN <<>>
    ELSE IF Head(s) = " --" THEN <<s[2]>> \o ParamNames(Tail(Tail(s)))
    ELSE ParamNames(Tail(s))

\* the place of the property id in the schema, 0 when it has none
SchemaPlace(id) ==
    IF \E i \in 1..Len(Leaves(schema.properties)) : Leaves(schema.properties)[i].id = id
    THEN CHOOSE i \in 1..Len(Leaves(schema.properties)) :
             Leaves(schema.properties)[i].id = id
    ELSE 0

\* the names follow the order of the schema's properties
InSchemaOrder(names) ==
    \A i, j \in 1..Len(names) :
        i < j /\ SchemaPlace(names[i]) > 0 /\ SchemaPlace(names[j]) > 0
            => SchemaPlace(names[i]) <= SchemaPlace(names[j])

(***************************************************************************)
(* C14.  In the command all engine flags come before all workflow          *)
(* parameters, and the workflow parameters come in the order of the        *)
(* schema's properties, whatever the order of the answers and whichever    *)
(* source gave each value.                                                 *)
(***************************************************************************)
C14_SchemaOrder ==
    [][Built /\ ~use_params_file =>
          /\ StartsWith(Appended, ExpectedFlags(nxf_flags))
          /\ Count(ExpectedFlags(nxf_flags), " --") = 0
          /\ InSchemaOrder(ParamNames(Appended))]_vars

\* the defaults a and flag, then the answer b: the command has --a, --flag,
\* --b, the schema a, b, flag
C14_Witness ==
    /\ pc = "launch_workflow"
    /\ ~use_params_file
    /\ ParamNames(nextflow_cmd) = <<"a", "flag", "b">>
    /\ SchemaPlace("b") < SchemaPlace("flag")
    /\ SchemaPlace("a") > 0

(***************************************************************************)
(* Quoting: build_command on values that hold double quotes and            *)
(* backslashes, as the user may type them in the wizard.                   *)
(***************************************************************************)
\* the longest value
MaxQuoteLen == 3

QuoteAlphabet == {"a", "\"", "\\"}

\* the wizard keeps no empty answer
QuoteTexts == UNION {[1..n -> QuoteAlphabet] : n \in 1..MaxQuoteLen}

\* the schema of the launch whose wizard was just left
QuoteSchema == CHOOSE s \in PipelineSchemas : Len(s.required) > 0

\* after the wizard of nf-core launch rnaseq, in which the user gave the
\* flag -profile the value v and the parameter b the value w
InitQuote ==
    \E v \in QuoteTexts, w \in QuoteTexts, command_only \in BOOLEAN :
        /\ pc = "build_command"
        /\ result = "running"
        /\ pipeline = "rnaseq"
        /\ pipeline_revision = NoneStr
        /\ web_id = NoneStr
        /\ params_in = NoFile
        /\ save_all = FALSE
        /\ use_params_file = ~command_only
        /\ show_hidden = FALSE
        /\ schema = [QuoteSchema EXCEPT
                        !.properties = merge_nxf_flag_schema(QuoteSchema.properties)]
        /\ schema_defaults = get_schema_defaults(QuoteSchema.properties)
        /\ input_params = <<Entry("b", PyStr(w))>>
        /\ nxf_flags = <<Entry("-profile", PyStr(v))>>
        /\ params_user = <<Entry("b", PyStr(w))>>
        /\ cli_launch = TRUE
        /\ nextflow_cmd = CommandPrefix("rnaseq", NoneStr)
        /\ web_schema_launch_web_url = <<>>
        /\ web_schema_launch_api_url = <<>>
        /\ web_response = NoResponse
        /\ polls = 0
        /\ browser_opened = FALSE
        /\ log_errors = {}
        /\ log_warnings = {}
        /\ params_out = NoFileOnDisk
        /\ process_started = FALSE
        /\ p_idx = Len(schema.properties) + 1
        /\ answers = <<Entry("-profile", PyStr(v)), Entry("b", PyStr(w))>>
        /\ g_answers = <<>>
        /\ asking = NotAsking
        /\ question = NoQuestion
        /\ edits = 0

NextQuote == BuildCommand \/ LaunchWorkflow

SpecQuote == InitQuote /\ [][NextQuote]_vars

\* a shell reading s from place i on, inside double quotes: a backslash
\* takes the next character literally when that is a double quote or a
\* backslash, and is itself literal otherwise; a double quote ends the token
RECURSIVE ShellRead(_, _, _)
ShellRead(s, i, acc) ==
    IF i > Len(s) THEN [closed |-> FALSE, value |-> acc, end |-> i]
    ELSE IF s[i] = "\"" THEN [closed |-> TRUE, value |-> acc, end |-> i]
    ELSE IF s[i] = "\\" /\ i < Len(s) /\ s[i + 1] \in {"\"", "\\"}
    THEN ShellRead(s, i + 2, Append(acc, s[i + 1]))
    ELSE ShellRead(s, i + 1, Append(acc, s[i]))

\* the token that opens at place i of s reads back as value and ends at
\* place last
ReadsBack(s, i, value, last) ==
    /\ s[i] = "\""
    /\ ShellRead(s, i + 1, <<>>).closed
    /\ ShellRead(s, i + 1, <<>>).value = value
    /\ ShellRead(s, i + 1, <<>>).end = last

\* where the text of the first workflow parameter starts, 0 when there is none
FirstParamAt(s) ==
    IF \E i \in 1..Len(s) : s[i] = " --"
    THEN CHOOSE i \in 1..Len(s) : s[i] = " --" /\ \A j \in 1..(i - 1) : s[j] # " --"
    ELSE 0

\* where the text of the engine flags ends
FlagsEndAt(s) ==
    IF FirstParamAt(s) > 0 THEN FirstParamAt(s) - 1
    ELSE IF Count(s, "-params-file") > 0
    THEN (CHOOSE i \in 1..Len(s) : s[i + 1] = "-params-file") - 1
    ELSE Len(s)

(***************************************************************************)
(* C15.  Quoting is safe for a shell: the "..." token of every non-boolean *)
(* flag or parameter value over plain characters, double quotes and        *)
(* backslashes reads back, under the shell's double-quote rules, as        *)
(* exactly the value, and ends where the value ends.                       *)
(***************************************************************************)
C15_QuotingReadsBack ==
    [][Built =>
          /\ ReadsBack(Appended, 4, nxf_flags[1].v.s, FlagsEndAt(Appended))
          /\ ~use_params_file =>
                ReadsBack(Appended, FirstParamAt(Appended) + 3,
                          input_params[1].v.s, Len(Appended))]_vars

\* the value backslash, double quote was written as "\\"": the shell reads a
\* backslash and the token ends before the value does
C15_Witness ==
    /\ pc = "launch_workflow"
    /\ nxf_flags[1].v.s = <<"\\", "\"">>
    /\ Holds(nextflow_cmd, <<" ", "-profile", " ", "\"", "\\", "\\", "\"", "\"">>)
    /\ ShellRead(nextflow_cmd, Len(CommandPrefix("rnaseq", NoneStr)) + 5, <<>>).value
          = <<"\\">>

\* values without a backslash do read back
C15_NoBackslashReadsBack ==
    [][Built /\ "\\" \notin {nxf_flags[1].v.s[i] : i \in 1..Len(nxf_flags[1].v.s)} =>
          ReadsBack(Appended, 4, nxf_flags[1].v.s, FlagsEndAt(Appended))]_vars

\* the answers prompt_param returns into: those of the group visit for a
\* child of a group, those of the wizard otherwise
ReturnedInto == IF asking.group = 0 THEN answers' ELSE g_answers'

(***************************************************************************)
(* C16.  The prompt of a required property shows the same question again   *)
(* after every blank answer, any number of times, and returns only with a  *)
(* non-blank answer for the property or by the user's abort; it never      *)
(* returns an empty or a missing answer.                                   *)
(***************************************************************************)
C16_RequiredAskedAgain ==
    /\ [][pc = "prompt_param" /\ asking.is_required /\ pc' = "prompt_param" =>
             /\ question' = question
             /\ asking' = asking
             /\ Msg("This property is required.", <<>>) \in log_errors'
             /\ UNCHANGED <<answers, g_answers, input_params, nxf_flags>>]_vars
    /\ [][pc = "prompt_param" /\ asking.is_required /\ pc' # "prompt_param" =>
             \/ pc' = "raised" /\ result' = "KeyboardInterrupt"
             \/ /\ pc' = IF asking.group = 0 THEN "prompt_schema" ELSE "prompt_group"
                /\ DictHas(ReturnedInto, asking.id)
                /\ NonBlank(DictGet(ReturnedInto, asking.id))]_vars

\* the required child b of the group was asked again after a blank answer
\* and then answered
C16_Witness ==
    /\ pc = "prompt_group"
    /\ Msg("This property is required.", <<>>) \in log_errors
    /\ DictHas(g_answers, "b")
    /\ DictGet(g_answers, "b") = PyStr(<<"x">>)
    /\ InSeq("b", schema.properties[p_idx].required)

\* the child id has a value held before the visit of the group, or an answer
\* of this visit
HasValueOrAnswer(id) ==
    \/ DictHas(input_params, id) /\ DictGet(input_params, id) # PyStr(<<>>)
    \/ DictHas(g_answers, id) /\ DictGet(g_answers, id) # PyStr(<<>>)

\* the required list of the group whose menu is shown
GroupRequired ==
    {schema.properties[p_idx].required[i] :
        i \in 1..Len(schema.properties[p_idx].required)}

(***************************************************************************)
(* C17.  In the menu of a group Continue leaves the group only if every    *)
(* child of the group's required list has a value in the input params or   *)
(* an answer of this visit; otherwise the exit is refused with an error    *)
(* and the menu is shown again.  So when the group prompt returns after    *)
(* Continue every required child has a value.                              *)
(***************************************************************************)
C17_ContinueNeedsRequired ==
    /\ [][pc = "prompt_group" /\ pc' = "prompt_schema" =>
             /\ \A id \in GroupRequired : HasValueOrAnswer(id)
             /\ \A id \in GroupRequired :
                   DictHas(input_params', id) \/ DictHas(answers', id)
             /\ \A i \in 1..Len(g_answers) :
                   /\ DictHas(answers', g_answers[i].k)
                   /\ DictGet(answers', g_answers[i].k) = g_answers[i].v]_vars
    /\ [][pc = "prompt_group" /\ pc' = "prompt_group" =>
             /\ \E id \in GroupRequired :
                   /\ ~HasValueOrAnswer(id)
                   /\ Msg("'{}' is required.", <<id>>) \in log_errors'
             /\ UNCHANGED <<answers, g_answers, p_idx, input_params>>]_vars

\* Continue was refused while b had no value, and let through once b was
\* answered
C17_Witness ==
    /\ pc = "prompt_schema"
    /\ Msg("'{}' is required.", <<"b">>) \in log_errors
    /\ ~DictHas(input_params, "b")
    /\ DictHas(answers, "b")
    /\ DictGet(answers, "b") = PyStr(<<"x">>)

\* Continue was let through for a value the parameter file had given
C17_FileValueWitness ==
    /\ pc = "prompt_schema"
    /\ p_idx > 1
    /\ schema.properties[p_idx - 1].type = "object"
    /\ InSeq("b", schema.properties[p_idx - 1].required)
    /\ DictHas(input_params, "b")
    /\ ~DictHas(answers, "b")

\* the launch is at one of its prompts: the choice of the launch method, the
\* wizard between two prompts, the menu of a group, the prompt of a property
\* (the first one and the ones repeated for a required property)
Prompting == pc \in {"prompt_web_gui", "prompt_schema", "prompt_group", "prompt_param"}

Aborted == result = "KeyboardInterrupt"

(***************************************************************************)
(* C18.  The user's abort at any prompt ends the whole session with no     *)
(* partial save: from the first prompt to the abort nothing is put into    *)
(* the flags map, the input values, the command or the parameter file,     *)
(* whatever answers were accepted before; after the abort nothing happens  *)
(* any more, so no parameter file is written and no process is started.    *)
(***************************************************************************)
C18_AbortSavesNothing ==
    /\ [][Prompting /\ pc' # "validate_params" =>
             UNCHANGED <<nxf_flags, input_params, params_user, nextflow_cmd,
                         params_out, process_started>>]_vars
    /\ [][Prompting /\ Aborted' => pc' = "raised"]_vars
    /\ [][~Aborted]_vars
    /\ [](Aborted => /\ pc = "raised"
                     /\ ~process_started
                     /\ params_out.content = <<>>
                     /\ params_user = <<>>
                     /\ nxf_flags = <<>>)

\* the abort at the menu of the group, after the answer b = x was accepted
C18_Witness ==
    /\ Aborted
    /\ asking = NotAsking
    /\ DictHas(g_answers, "b")
    /\ ~DictHas(input_params, "b")
    /\ Len(input_params) > 0

\* aborts at the other prompts: the launch method, a property, a required
\* property asked again
C18_MethodWitness == Aborted /\ p_idx = 1 /\ Len(schema.properties) > 0 /\ answers = <<>> /\ asking = NotAsking /\ g_answers = <<>>

C18_RepromptWitness ==
    /\ Aborted
    /\ asking.is_required
    /\ Msg("This property is required.", <<>>) \in log_errors

\* this step is the end of the wizard: the split of lines 381-391
WizardEnds == pc = "prompt_schema" /\ pc' = "validate_params"

\* the map after holds the entry e
HeldAs(after, e) == DictHas(after, e.k) /\ DictGet(after, e.k) = e.v

\* the map after holds for k what the map before did, if anything
KeptAs(before, after, k) ==
    IF DictHas(before, k) THEN HeldAs(after, [k |-> k, v |-> DictGet(before, k)])
    ELSE ~DictHas(after, k)

(***************************************************************************)
(* C19.  At the end of the wizard the answers are split and merged: the    *)
(* answer of an engine flag goes to the flags map only, every other answer *)
(* to the workflow-parameter map only, and that map is merged into the     *)
(* input values, so that an input value that was not answered keeps the    *)
(* value (default or from the file) it had.                                *)
(***************************************************************************)
C19_SplitAndMerge ==
    [][WizardEnds =>
          /\ \A i \in 1..Len(answers) :
                IF answers[i].k \in NxfFlagIds
                THEN /\ HeldAs(nxf_flags', answers[i])
                     /\ ~DictHas(params_user', answers[i].k)
                     /\ KeptAs(input_params, input_params', answers[i].k)
                ELSE /\ HeldAs(params_user', answers[i])
                     /\ HeldAs(input_params', answers[i])
                     /\ KeptAs(nxf_flags, nxf_flags', answers[i].k)
          /\ \A i \in 1..Len(input_params) :
                ~DictHas(answers, input_params[i].k) =>
                    HeldAs(input_params', input_params[i])
          /\ \A i \in 1..Len(input_params') :
                DictHas(input_params, input_params'[i].k)
                \/ DictHas(answers, input_params'[i].k)
          /\ \A i \in 1..Len(nxf_flags') :
                DictHas(nxf_flags, nxf_flags'[i].k) \/ DictHas(answers, nxf_flags'[i].k)]_vars

\* the flag -work-dir and the parameter a were answered, b and flag were
\* not: b is still the file's, flag still the default
C19_Witness ==
    /\ pc = "validate_params"
    /\ cli_launch
    /\ DictHas(answers, "-work-dir")
    /\ DictHas(nxf_flags, "-work-dir")
    /\ ~DictHas(input_params, "-work-dir")
    /\ DictHas(params_user, "a")
    /\ ~DictHas(answers, "b")
    /\ DictHas(params_in, "b")
    /\ DictHas(input_params, "b")
    /\ DictGet(input_params, "b") = DictGet(params_in, "b")
    /\ ~DictHas(answers, "flag")
    /\ DictHas(schema_defaults, "flag")
    /\ DictHas(input_params, "flag")
    /\ DictGet(input_params, "flag") = DictGet(schema_defaults, "flag")

(***************************************************************************)
(* C20.  After reconciliation no identifier is both in the flags map and   *)
(* in the workflow input values, and an identifier that is the name of an  *)
(* engine flag is held as an engine flag only.                             *)
(***************************************************************************)
C20_DisjointNamespaces ==
    Reconciled =>
        /\ \A i \in 1..Len(input_params) : ~DictHas(nxf_flags, input_params[i].k)
        /\ \A i \in 1..Len(input_params) : input_params[i].k \notin NxfFlagIds

\* the form returned -resume among the flags and among the input params:
\* both maps hold it
C20_Witness ==
    /\ Reconciled
    /\ IsComplete(web_response)
    /\ DictHas(web_response.input_params, "-resume")
    /\ DictHas(nxf_flags, "-resume")
    /\ DictHas(input_params, "-resume")

\* the parameter file held -resume and the user answered the flag -resume
C20_FileWitness ==
    /\ Reconciled
    /\ cli_launch
    /\ web_response = NoResponse
    /\ DictHas(params_in, "-resume")
    /\ DictHas(answers, "-resume")
    /\ DictHas(nxf_flags, "-resume")
    /\ DictHas(input_params, "-resume")

(***************************************************************************)
(* The question compiler.                                                  *)
(***************************************************************************)
\* a step of the wizard that compiles the question of one property
Compiling == pc # "prompt_param" /\ pc' = "prompt_param"

\* the top-level property `id` of the schema declares the enum list `enum`
DeclaresEnum(id, enum) ==
    \E i \in 1..Len(schema.properties) :
        /\ schema.properties[i].id = id
        /\ schema.properties[i].hasEnum
        /\ schema.properties[i].enum = enum

\* C21: compiling the question of a property changes neither the schema
\* (the order of a declared enum list included) nor the input values.
C21_CompilePure ==
    [][Compiling => schema' = schema /\ input_params' = input_params]_vars

\* the wizard asks for e, declared with the enum x, y and the default y: the
\* schema now declares y, x
C21_Witness ==
    /\ pc = "prompt_param"
    /\ asking.id = "e"
    /\ question.choices = <<<<"y">>, <<"x">>>>
    /\ DeclaresEnum("e", <<<<"y">>, <<"x">>>>)
    /\ ~DictHas(input_params, "e") \/ DictGet(input_params, "e") = PyStr(<<"y">>)

(***************************************************************************)
(* The wizard on one property: schemas of a single property, at the top    *)
(* level or as the only child of a group, after the engine flags have been *)
(* passed with Continue.                                                   *)
(***************************************************************************)
S_xyz == <<<<"x">>, <<"y">>, <<"z">>>>

Ranged(p, lo, hi) ==
    [p EXCEPT !.hasMin = TRUE, !.minimum = lo, !.hasMax = TRUE, !.maximum = hi]

\* the property the wizard asks for
WizardProps ==
    { Prop("p", "string"),
      WithDefault(Prop("p", "string"), PyStr(<<"x">>)),
      Prop("p", "boolean"),
      WithDefault(Prop("p", "boolean"), PyBool(TRUE)),
      WithDefault(Prop("p", "boolean"), PyStr(S_true)),
      Prop("p", "integer"),
      WithDefault(Prop("p", "integer"), PyInt(3)),
      Prop("p", "number"),
      Ranged(Prop("p", "range"), 1, 2),
      WithPattern(Prop("p", "integer"), "^[a-zA-Z0-9-_]+$"),
      WithPattern(Prop("p", "number"), "^\\d+$"),
      WithPattern(Ranged(Prop("p", "range"), 1, 2), "^\\d+$"),
      WithEnum(Prop("p", "string"), S_xyz),
      WithEnum(WithDefault(Prop("p", "string"), PyStr(<<"z">>)), S_xyz),
      WithEnum(WithDefault(Prop("p", "string"), PyStr(<<"w">>)), S_xyz),
      WithEnum(WithDefault(Prop("p", "string"), PyStr(<<"y">>)),
               <<<<"x">>, <<"y">>, <<"z">>, <<"y">>>>),
      WithEnum(WithDefault(Prop("p", "integer"), PyInt(3)), <<<<"1">>, <<"3">>>>),
      WithPattern(WithEnum(WithDefault(Prop("p", "string"), PyStr(<<"y">>)),
                           <<<<"x">>, <<"3">>, <<"y">>>>),
                  "^\\d+$") }

\* what the --params-in file holds for it
WizardFiles ==
    { NoFile,
      <<Entry("p", PyStr(<<"x">>))>>,
      <<Entry("p", PyInt(2))>>,
      <<Entry("p", PyBool(FALSE))>>,
      <<Entry("p", PyStr(S_true))>> }

\* the schemas get_pipeline_schema loads
WizardSchemas ==
    { [properties |-> <<p>>, required |-> r] :
          p \in WizardProps, r \in {<<>>, <<"p">>} }
    \cup { [properties |-> <<Group("G", <<p>>, r)>>, required |-> <<>>] :
              p \in WizardProps, r \in {<<>>, <<"p">>} }

InitWizard ==
    \E s \in WizardSchemas, file \in WizardFiles :
        /\ pc = "prompt_schema"
        /\ result = "running"
        /\ pipeline = "rnaseq"
        /\ pipeline_revision = NoneStr
        /\ web_id = NoneStr
        /\ params_in = file
        /\ save_all = FALSE
        /\ use_params_file = TRUE
        /\ show_hidden = FALSE
        /\ schema = [s EXCEPT !.properties = merge_nxf_flag_schema(s.properties)]
        /\ schema_defaults = get_schema_defaults(s.properties)
        /\ input_params = set_schema_inputs(<<>>, get_schema_defaults(s.properties), file)
        /\ nxf_flags = <<>>
        /\ params_user = <<>>
        /\ cli_launch = TRUE
        /\ nextflow_cmd = CommandPrefix("rnaseq", NoneStr)
        /\ web_schema_launch_web_url = <<>>
        /\ web_schema_launch_api_url = <<>>
        /\ web_response = NoResponse
        /\ polls = 0
        /\ browser_opened = FALSE
        /\ log_errors = {}
        /\ log_warnings = {}
        /\ params_out = NoFileOnDisk
        /\ process_started = FALSE
        /\ p_idx = 2
        /\ answers = <<>>
        /\ g_answers = <<>>
        /\ asking = NotAsking
        /\ question = NoQuestion
        /\ edits = 0

NextWizard == PromptSchema \/ PromptGroup \/ PromptParam

SpecWizard == InitWizard /\ [][NextWizard]_vars

\* the property a compiling step compiles, as the schema declares it before
\* the step
AskedBefore ==
    IF asking'.group = 0 THEN schema.properties[p_idx]
    ELSE ChildOf(schema.properties[asking'.group], asking'.id)

\* s without the first x
RECURSIVE RemoveFirst(_, _)
RemoveFirst(s, x) ==
    IF s = <<>> THEN <<>>
    ELSE IF Head(s) = x THEN Tail(s)
    ELSE <<Head(s)>> \o RemoveFirst(Tail(s), x)

\* the compiled choices against the declared ones
ChoicesCompiled(q, declared, warnings) ==
    /\ \A i \in 1..Len(declared) : Count(q.choices, declared[i]) = Count(declared, declared[i])
    /\ Len(q.choices) = Len(declared)
    /\ (q.hasDefault /\ InSeq(q.default, declared)) =>
          /\ q.choices[1] = q.default
          /\ Tail(q.choices) = RemoveFirst(declared, q.default)
    /\ (q.hasDefault /\ ~InSeq(q.default, declared)) =>
          /\ q.choices = declared
          /\ Msg("Default value {} not found in list of choices: {}", <<q.name>>)
                \in warnings

\* C22: the choices of a selection list are a permutation of the declared
\* ones; a default that is among them comes first and the others keep their
\* order, a default that is not leaves the order alone and a warning is
\* logged.
C22_DefaultFirst ==
    [][(Compiling /\ question'.type = "list") =>
          ChoicesCompiled(question', DeclaredChoices(AskedBefore), log_warnings')]_vars

\* the default z of the enum x, y, z is offered first, then x, y
C22_Witness ==
    /\ pc = "prompt_param"
    /\ question.type = "list"
    /\ question.default = <<"z">>
    /\ question.choices = <<<<"z">>, <<"x">>, <<"y">>>>
    /\ log_warnings = {}

\* the default w is not among x, y, z
C22_WarnedWitness ==
    /\ pc = "prompt_param"
    /\ question.type = "list"
    /\ question.default = <<"w">>
    /\ question.choices = S_xyz
    /\ log_warnings # {}

\* the answers of this session the compiler is given: those of prompt_schema
\* for a top-level property, those of this visit of the group for a child
SessionAnswers == IF asking.group = 0 THEN answers ELSE g_answers

\* a value as a default shows it: as text, a boolean written as text first
\* read as a boolean
Shown(param_obj, v) ==
    IF param_obj.type = "boolean" /\ v.t = "str"
    THEN PyToStr(PyBool(Lower(v.s) = S_true))
    ELSE PyToStr(v)

\* the default of the question q for the property p is the value of v
Shows(q, p, v) == q.hasDefault /\ q.default = Shown(p, v)

\* C23: the default a question shows is the answer already given for the
\* property in this session; without one, the property's value in the input
\* params; without that, the default the schema declares.
C23_DefaultResolution ==
    pc = "prompt_param" =>
        /\ DictHas(SessionAnswers, asking.id) =>
              /\ question.hasDefault
              /\ question.default = PyToStr(DictGet(SessionAnswers, asking.id))
        /\ (~DictHas(SessionAnswers, asking.id) /\ DictHas(input_params, asking.id)) =>
              Shows(question, AskedProp, DictGet(input_params, asking.id))
        /\ (~DictHas(SessionAnswers, asking.id) /\ ~DictHas(input_params, asking.id)
                /\ AskedProp.hasDefault) =>
              Shows(question, AskedProp, AskedProp.default)

\* the child b of the group is opened again after the answer x: the question
\* shows x, not the f of the parameter file
C23_Witness ==
    /\ pc = "prompt_param"
    /\ asking.id = "b"
    /\ asking.group # 0
    /\ DictHas(g_answers, "b") /\ DictGet(g_answers, "b") = PyStr(<<"x">>)
    /\ DictHas(input_params, "b") /\ DictGet(input_params, "b") = PyStr(<<"f">>)
    /\ question.default = <<"x">>

\* the file's 2 for a is shown, not the default 1 of the schema
C23_FileWitness ==
    /\ pc = "prompt_param"
    /\ asking.id = "a"
    /\ AskedProp.hasDefault /\ AskedProp.default = PyInt(1)
    /\ DictHas(input_params, "a") /\ DictGet(input_params, "a") = PyInt(2)
    /\ question.default = <<"2">>

\* -work-dir has neither an answer nor an input value: its declared default
\* is shown
C23_SchemaDefaultWitness ==
    /\ pc = "prompt_param"
    /\ asking.id = "-work-dir"
    /\ ~DictHas(g_answers, "-work-dir")
    /\ ~DictHas(input_params, "-work-dir")
    /\ question.default = <<".", "/", "w", "o", "r", "k">>

(***************************************************************************)
(* Groups of the wizard.                                                   *)
(***************************************************************************)
\* the property holds a group among its children
HoldsGroup(p) ==
    p.type = "object" /\ \E i \in 1..Len(p.properties) : p.properties[i].type = "object"

\* prompt_schema has reached a group the wizard goes into
ReachedGroup ==
    /\ pc = "prompt_schema"
    /\ p_idx <= Len(schema.properties)
    /\ schema.properties[p_idx].type = "object"
    /\ ~schema.properties[p_idx].hidden \/ show_hidden

\* the group whose menu or whose child is presented, 0 for none
PresentedGroup ==
    IF pc = "prompt_group" THEN p_idx
    ELSE IF pc = "prompt_param" THEN asking.group
    ELSE 0

NestedGroupError == Msg("nf-core only supports groups 1-level deep", <<>>)

\* C24: a group that holds a group is reported as an error, adds no answers
\* and the traversal goes on with the next property; neither its menu nor
\* one of its children is ever presented.
C24_NestedGroupRejected ==
    /\ [][(ReachedGroup /\ HoldsGroup(schema.properties[p_idx])) =>
             /\ NestedGroupError \in log_errors'
             /\ answers' = answers
             /\ p_idx' = p_idx + 1
             /\ pc' = "prompt_schema"
             /\ result' = result]_vars
    /\ [](PresentedGroup # 0 => ~HoldsGroup(schema.properties[PresentedGroup]))

\* the group N was rejected and the wizard went on to the group V, whose
\* child v was answered
C24_Witness ==
    /\ pc = "prompt_schema"
    /\ result = "running"
    /\ NestedGroupError \in log_errors
    /\ \E i \in 1..Len(schema.properties) :
          i < p_idx /\ HoldsGroup(schema.properties[i])
    /\ DictHas(answers, "v")
    /\ ~DictHas(answers, "c")

\* the ids of the hidden leaf properties of the schema
HiddenIds ==
    {Leaves(schema.properties)[i].id :
        i \in {j \in 1..Len(Leaves(schema.properties)) :
                  Leaves(schema.properties)[j].hidden}}

\* every child of the group is hidden
AllHidden(group) == \A i \in 1..Len(group.properties) : group.properties[i].hidden

\* C25: unless hidden properties are to be shown, no question is presented
\* for a hidden property and no answer is held for one, no menu is presented
\* for a hidden group or for a group whose children are all hidden, and
\* reaching such a group adds no answers and goes on with the next property.
C25_HiddenNeverPrompted ==
    /\ [](~show_hidden =>
             /\ pc = "prompt_param" => asking.id \notin HiddenIds
             /\ pc = "prompt_group" =>
                   /\ ~schema.properties[p_idx].hidden
                   /\ ~AllHidden(schema.properties[p_idx])
             /\ \A id \in HiddenIds : ~DictHas(answers, id) /\ ~DictHas(g_answers, id))
    /\ [][(/\ ~show_hidden
           /\ pc = "prompt_schema"
           /\ p_idx <= Len(schema.properties)
           /\ schema.properties[p_idx].type = "object"
           /\ AllHidden(schema.properties[p_idx])
           /\ ~HoldsGroup(schema.properties[p_idx])) =>
             /\ pc' = "prompt_schema"
             /\ p_idx' = p_idx + 1
             /\ answers' = answers
             /\ UNCHANGED <<g_answers, asking, question, logs, result>>]_vars

\* the wizard is past the group H, whose only child is hidden, and has an
\* answer for v, the visible child of V, whose other child h2 is hidden
C25_Witness ==
    /\ ~show_hidden
    /\ pc = "prompt_schema"
    /\ \E i \in 1..Len(schema.properties) :
          /\ i < p_idx
          /\ schema.properties[i].type = "object"
          /\ schema.properties[i].properties # <<>>
          /\ AllHidden(schema.properties[i])
    /\ {"k", "h2"} \subseteq HiddenIds
    /\ DictHas(answers, "v")

\* with hidden properties shown, the hidden child of H is asked for
C25_ShownWitness ==
    /\ show_hidden
    /\ pc = "prompt_param"
    /\ asking.id = "k"
    /\ "k" \in HiddenIds

(***************************************************************************)
(* Validators and filters of a question.                                   *)
(***************************************************************************)
NumericTypes == {"number", "integer", "range"}

\* C26: the question of a number, integer or range property accepts the
\* empty text and its filter returns the empty text for it.
C26_EmptyStaysEmpty ==
    (pc = "prompt_param" /\ AskedProp.type \in NumericTypes) =>
        /\ Valid(question.validate, AskedProp, <<>>)
        /\ ApplyFilter(question.filter, PyStr(<<>>)) = PyStr(<<>>)

\* an integer, number or range property without default or file value was
\* asked for and left empty: the wizard went on and holds no answer for it
C26_Witness ==
    /\ pc = "prompt_schema"
    /\ result = "running"
    /\ p_idx = 3
    /\ schema.properties[2].type \in NumericTypes
    /\ ~schema.properties[2].hasEnum
    /\ ~schema.properties[2].hasPattern
    /\ answers = <<>>
    /\ input_params = <<>>
    /\ edits = 0

(***************************************************************************)
(* Values of a completed web form.                                         *)
(***************************************************************************)
\* the type the leaves declare for id, "none" when they do not declare it
DeclaredType(leaves, id) ==
    IF \E i \in 1..Len(leaves) : leaves[i].id = id
    THEN leaves[CHOOSE i \in 1..Len(leaves) :
                    /\ leaves[i].id = id
                    /\ \A j \in (i + 1)..Len(leaves) : leaves[j].id # id].type
    ELSE "none"

\* v is a text the type can be read from, or a value of the type
WellTyped(v, type) ==
    CASE v.t = "str" ->
             \/ Strip(v.s) = <<>>
             \/ /\ type = "integer" => IsIntText(v.s)
                /\ type \in {"number", "range"} => IsFloatText(v.s)
      [] v.t = "bool" -> type \in {"boolean", "none"}
      [] v.t = "int" -> type \in {"integer", "number", "range", "none"}
      [] v.t = "float" -> type \in {"number", "range", "none"}
      [] OTHER -> FALSE

AllWellTyped(params, leaves) ==
    \A i \in 1..Len(params) : WellTyped(params[i].v, DeclaredType(leaves, params[i].k))

\* the response r is complete, lacks no key, returns input params, and each
\* value it returns is a text or a value of the declared type
CompleteAndWellTyped(r) ==
    /\ IsComplete(r)
    /\ r.missing = {}
    /\ Len(r.input_params) > 0
    /\ AllWellTyped(r.input_params, Leaves(r.schema.properties))
    /\ AllWellTyped(r.nxf_flags, Leaves(r.schema.properties))

\* C27: a completed response with input params is adopted and the poll
\* succeeds, whether the values come as text or as values of their type; a
\* value that came typed is held as it came.
\* The code does not keep this: a typed value of a number, integer or range
\* property makes the filter raise, and the launch ends.
C27_TypedValuesAdopted ==
    [][(PollStep /\ CompleteAndWellTyped(web_response')) =>
          /\ pc' \in {"web_id_inputs", "validate_params"}
          /\ \A i \in 1..Len(web_response'.input_params) :
                web_response'.input_params[i].v.t # "str" =>
                    /\ DictHas(input_params', web_response'.input_params[i].k)
                    /\ DictGet(input_params', web_response'.input_params[i].k)
                          = web_response'.input_params[i].v]_vars

\* the form returned a = 1 as a number for the integer property a: the
\* launch ended with an error
C27_Witness ==
    /\ CompleteAndWellTyped(web_response)
    /\ DictHas(web_response.input_params, "a")
    /\ DictGet(web_response.input_params, "a") = PyInt(1)
    /\ DeclaredType(Leaves(web_response.schema.properties), "a") = "integer"
    /\ pc = "done"
    /\ result = "False"
    /\ Msg("Unknown exception ({}) - see verbose log for details. {}", <<"Exception">>)
          \in log_errors

\* the same values as text are adopted
C27_TextWitness ==
    /\ CompleteAndWellTyped(web_response)
    /\ DictHas(web_response.input_params, "a")
    /\ DictGet(web_response.input_params, "a") = PyStr(<<"4">>)
    /\ DeclaredType(Leaves(web_response.schema.properties), "a") = "integer"
    /\ pc = "validate_params"
    /\ DictHas(input_params, "a")
    /\ DictGet(input_params, "a") = PyInt(4)

\* the answer v satisfies what the property declares: its numeric type, its
\* enum and its pattern
Satisfies(p, v) ==
    /\ p.type \in NumericTypes => v.t \in {"int", "float"}
    /\ p.hasEnum => InSeq(PyToStr(v), p.enum)
    /\ p.hasPattern => Matches(p.pattern, PyToStr(v))

AnswersSatisfy(held) ==
    \A i \in 1..Len(Leaves(schema.properties)) :
        DictHas(held, Leaves(schema.properties)[i].id) =>
            Satisfies(Leaves(schema.properties)[i],
                      DictGet(held, Leaves(schema.properties)[i].id))

\* C28: an answer the wizard holds satisfies every constraint its property
\* declares, and no filter is given a text it cannot read.
\* The code does not keep this: only the validator assigned last is asked,
\* and a selection list asks none.
C28_EveryConstraintChecked ==
    /\ result # "ValueError"
    /\ AnswersSatisfy(answers)
    /\ AnswersSatisfy(g_answers)

\* the integer n declares a pattern that x matches: the answer x was let
\* through to filter_integer, which raised
C28_Witness ==
    /\ pc = "raised"
    /\ result = "ValueError"
    /\ asking.id = "n"
    /\ AskedProp.type = "integer"
    /\ AskedProp.hasPattern
    /\ Matches(AskedProp.pattern, <<"x">>)
    /\ ~validate_integer(<<"x">>)

\* the enum m declares the pattern ^\d+$: the choice x is held as its answer
C28_EnumWitness ==
    /\ DictHas(answers, "m")
    /\ DictGet(answers, "m") = PyStr(<<"x">>)
    /\ \E i \in 1..Len(schema.properties) :
          /\ schema.properties[i].id = "m"
          /\ schema.properties[i].hasEnum
          /\ schema.properties[i].hasPattern
          /\ ~Matches(schema.properties[i].pattern, <<"x">>)

\* this step is a poll that received a completed response and rejected it
PollRejected ==
    /\ PollStep
    /\ IsComplete(web_response')
    /\ pc' = "done"
    /\ result' = "False"

\* C29: a completed response that is rejected, for a missing key or a
\* failed sanitisation, leaves the flags, the input params, the schema, the
\* command, the pipeline and the revision as they were before the poll.
\* The code does not keep this: the fields are assigned one by one before
\* the missing key is met or the sanitisation raises.
C29_AdoptionAllOrNothing ==
    [][PollRejected =>
          UNCHANGED <<nxf_flags, input_params, schema, nextflow_cmd, pipeline,
                      pipeline_revision>>]_vars

\* the response lacked the key schema: the launch ended, with the flags and
\* the input params of the response assigned and the schema still empty
C29_Witness ==
    /\ IsComplete(web_response)
    /\ web_response.missing = {"schema"}
    /\ pc = "done"
    /\ result = "False"
    /\ Msg("Missing return key from web API: {}", <<"schema">>) \in log_errors
    /\ polls = 1
    /\ web_id # NoneStr
    /\ nxf_flags = web_response.nxf_flags
    /\ nxf_flags # <<>>
    /\ input_params = web_response.input_params
    /\ input_params # <<>>
    /\ schema = EmptySchema

\* the sanitisation raised on a text that is no integer: every field of the
\* response is assigned
C29_SanitiseWitness ==
    /\ IsComplete(web_response)
    /\ web_response.missing = {}
    /\ pc = "done"
    /\ result = "False"
    /\ polls = 1
    /\ web_id # NoneStr
    /\ DictHas(input_params, "a")
    /\ DictGet(input_params, "a") = PyStr(<<"x">>)
    /\ pipeline = web_response.pipeline
    /\ nextflow_cmd = web_response.nextflow_cmd

(***************************************************************************)
(* The order of a launch.                                                  *)
(***************************************************************************)
\* this step writes the parameter file
FileWritten == params_out' # params_out /\ params_out'.exists

\* this step appends flags or parameters to the command (the revision
\* belongs to its prefix)
CommandExtended ==
    /\ Len(nextflow_cmd') > Len(nextflow_cmd)
    /\ StartsWith(nextflow_cmd', nextflow_cmd)
    /\ nextflow_cmd'[Len(nextflow_cmd) + 1] # " -r "

\* this step starts the workflow
ProcessStarted == process_started' /\ ~process_started

\* C30: the parameter file is written and the command extended only by
\* build_command, which is reached only from a validation that succeeded
\* (directly or through the stripping of the defaults); the workflow is
\* started only by launch_workflow, which is reached only from
\* build_command; a launch that returned False wrote no file and started no
\* process.
C30_LaunchOrder ==
    /\ [][(FileWritten \/ CommandExtended) => pc = "build_command"]_vars
    /\ [][pc' = "build_command" =>
             /\ pc \in {"validate_params", "strip_default_params"}
             /\ result' = "running"]_vars
    /\ [][pc' = "strip_default_params" =>
             pc = "validate_params" /\ result' = "running"]_vars
    /\ [][ProcessStarted => pc = "launch_workflow"]_vars
    /\ [][pc' = "launch_workflow" => pc = "build_command"]_vars
    /\ [](result = "False" => ~process_started /\ params_out.content = <<>>)

\* a launch that wrote the parameter file, named it in the command and
\* started the workflow
C30_Witness ==
    /\ pc = "done"
    /\ result = "None"
    /\ process_started
    /\ params_out.exists
    /\ params_out.content # <<>>
    /\ params_out.content = input_params
    /\ InSeq("-params-file", nextflow_cmd)

\* a launch from a web id that ended on a response lacking a key: no file,
\* no process
C30_AbortWitness ==
    /\ pc = "done"
    /\ result = "False"
    /\ IsComplete(web_response)
    /\ web_response.missing # {}
    /\ input_params # <<>>
    /\ ~params_out.exists
    /\ ~process_started

====
